---- MODULE Spec2Model ----
(***************************************************************************)
(* A model of the action engine of canvas2d (src/src/action.ts): the       *)
(* behaviour units Callback, Delay, Transition and Animation, the queue of *)
(* one Action, the process-wide active list and listener list, and the     *)
(* per-frame drive Action.step(deltaTime); and of the Sprite it acts on    *)
(* (src/src/bmfontlabel.ts): the tree of parent and children, the stage    *)
(* reference, and the layout done by the property setters; and of the      *)
(* Stage that drives both from a timer (src/src/stage.ts).                 *)
(*                                                                         *)
(* Time is counted in half seconds: a deltaTime of 3 is 1.5 s, a duration  *)
(* of 2 is 1.0 s.  Attribute values are integers; an interpolated value is *)
(* rounded down to an integer.  Lengths of the layout are counted in        *)
(* quarter pixels (Px), origins and percentages in halves.                 *)
(***************************************************************************)
EXTENDS Integers, Sequences, FiniteSets, TLC

\* A null sprite; an undefined texture; an animation without repetitions.
Null == "null"
Undefined == -1
NoRepetitions == -1
\* No array of callbacks (an array of callbacks is never empty).
NoCallbacks == <<>>

\* The Action objects and the sprites they are constructed on.
Actions == {"a1", "a2"}
Sprites == {"s1", "s2"}
\* All Sprite objects: the root sprite of the stage, the sprites with an
\* Action, and one more.
Nodes == {"root"} \cup Sprites \cup {"s3"}

\* Bounds of the model.
MaxQueue == 3
MaxEngineQueue == 1
MaxAnimQueue == 3
MaxDt == 3
MaxListeners == 1

DtSet == 1 .. MaxDt
\* Durations of the Delay and Transition units queued by the environment.
Durations == {2}
\* Attribute maps handed to Action.to().
Targets == { ("x" :> 4) @@ ("y" :> 2) }
\* (frame count, repetitions) handed to Action.animate(); the frame rate is
\* 1 per second, so the interval is two time units.
AnimShapes == { <<1, 1>>, <<3, 2>>, <<2, NoRepetitions>> }
AnimInterval == 2
\* The functions handed to Action.then(): one without effect on the engine,
\* and one stopping an Action.
Nop == [op |-> "nop"]
Funcs == { Nop } \cup { [op |-> "stop", target |-> a] : a \in Actions }
\* The functions queued on the single Action of the chain model.
ChainFuncs == { Nop, [op |-> "stop", target |-> "a1"] }
\* The functions handed to Listener.allDone() and to Listener.anyDone().
AllCbs == {"f", "g"}
AnyCbs == {"h"}
Cbs == AllCbs \cup AnyCbs
\* The sets of Actions handed to Action.listen().
ListenSets == { {}, {"a1"}, Actions }

VARIABLES
    queue,          \* Action._queue, per Action
    done,           \* Action._done
    running,        \* Action.running
    sprite,         \* Action.sprite (Null once the queue has drained)
    actionList,     \* Action._actionList
    listenerList,   \* Action._listenerList (indexes into listener)
    listener,       \* the Listener objects created so far
    attr,           \* the numeric attributes x, y of every sprite
    texture,        \* the texture of every sprite (a frame index)
    node,           \* the other fields of every sprite: tree, stage, layout
    loop,           \* Stage: isRunning, timerID and the timeouts still to fire
    label,          \* BMFontLabel._text and _words of the label (sprite s1)
    log             \* history: what the last operation did, in order

vars == << queue, done, running, sprite, actionList, listenerList, listener,
           attr, texture, node, loop, label, log >>

\* The engine state as one value, so that the operations compose.
Eng == [ queue |-> queue, done |-> done, running |-> running, sprite |-> sprite,
         actionList |-> actionList, listenerList |-> listenerList,
         listener |-> listener, attr |-> attr, texture |-> texture, node |-> node,
         loop |-> loop, label |-> label, log |-> <<>> ]

Commit(e) ==
    /\ queue' = e.queue
    /\ done' = e.done
    /\ running' = e.running
    /\ sprite' = e.sprite
    /\ actionList' = e.actionList
    /\ listenerList' = e.listenerList
    /\ listener' = e.listener
    /\ attr' = e.attr
    /\ texture' = e.texture
    /\ node' = e.node
    /\ loop' = e.loop
    /\ label' = e.label
    /\ log' = e.log

Emit(e, event) == [e EXCEPT !.log = Append(@, event)]

----------------------------------------------------------------------------
\* Array helpers

IndexOf(array, item) ==
    IF \E i \in 1 .. Len(array) : array[i] = item
    THEN CHOOSE i \in 1 .. Len(array) :
            array[i] = item /\ \A j \in 1 .. (i - 1) : array[j] # item
    ELSE 0

addArrayItem(array, item) ==
    IF IndexOf(array, item) = 0 THEN Append(array, item) ELSE array

removeArrayItem(array, item) ==
    LET index == IndexOf(array, item)
    IN  IF index > 0
        THEN SubSeq(array, 1, index - 1) \o SubSeq(array, index + 1, Len(array))
        ELSE array

----------------------------------------------------------------------------
\* Action.start and Action.stop

\* Mutant: start() without the running guard and without the duplicate check.
Action_start_always(e, a) ==
    Emit([e EXCEPT !.actionList = Append(@, a), !.running[a] = TRUE],
         [ev |-> "started", act |-> a])

Action_start(e, a) ==
    IF ~e.running[a]
    THEN Emit([e EXCEPT !.actionList = addArrayItem(@, a), !.running[a] = TRUE],
              [ev |-> "started", act |-> a])
    ELSE e

\* Mutant: stop() that leaves the queue as it is.
Action_stop_keepsQueue(e, a) ==
    Emit([e EXCEPT !.done[a] = TRUE,
                   !.running[a] = FALSE,
                   !.actionList = removeArrayItem(@, a)],
         [ev |-> "stopped", act |-> a, dropped |-> Len(e.queue[a])])

\* The log entry tells how many units the stop discarded.
Action_stop(e, a) ==
    Emit([e EXCEPT !.done[a] = TRUE,
                   !.running[a] = FALSE,
                   !.queue[a] = <<>>,
                   !.actionList = removeArrayItem(@, a)],
         [ev |-> "stopped", act |-> a, dropped |-> Len(e.queue[a])])

\* Action.stop(sprite): every Action of a snapshot of the active list that
\* is on the sprite is stopped.
RECURSIVE StopEach(_, _, _)
StopEach(e, snapshot, s) ==
    IF snapshot = <<>> THEN e
    ELSE LET a == Head(snapshot)
         IN  StopEach(IF e.sprite[a] = s THEN Action_stop(e, a) ELSE e,
                      Tail(snapshot), s)

Action_stopSprite(e, s) == StopEach(e, e.actionList, s)

----------------------------------------------------------------------------
\* Sprite: the fields, and the layout done by the setters.

\* A length of n pixels; half of a length; a length times an origin or a
\* percentage counted in halves (1 is 0.5, 2 is 1.0).
Px(n) == 4 * n
Half(v) == v \div 2
Times(v, halves) == (v * halves) \div 2

\* The two axes: the names of the fields and of the alignments of each.
AxisX ==
    [size |-> "width", origin |-> "originX", originPixel |-> "originPixelX",
     pos |-> "x", near |-> "left", far |-> "right", percent |-> "percentWidth",
     align |-> "alignX", low |-> "LEFT", high |-> "RIGHT",
     opposite |-> {"TOP", "BOTTOM"}]
AxisY ==
    [size |-> "height", origin |-> "originY", originPixel |-> "originPixelY",
     pos |-> "y", near |-> "top", far |-> "bottom", percent |-> "percentHeight",
     align |-> "alignY", low |-> "TOP", high |-> "BOTTOM",
     opposite |-> {"LEFT", "RIGHT"}]
Axes == {AxisX, AxisY}
AlignType == {"TOP", "RIGHT", "BOTTOM", "LEFT", "CENTER"}

\* The natural size of every texture (all of them ready).
TextureWidth == Px(64)
TextureHeight == Px(32)

\* The fields of a new Sprite; x, y and the texture are in attr and texture.
\* A children list that is absent or null is the empty list.
NewSprite ==
    [parent |-> Null, stage |-> Null, children |-> <<>>,
     width |-> 0, height |-> 0, originX |-> 1, originY |-> 1,
     originPixelX |-> 0, originPixelY |-> 0,
     top |-> Undefined, right |-> Undefined, bottom |-> Undefined, left |-> Undefined,
     percentWidth |-> Undefined, percentHeight |-> Undefined,
     alignX |-> Null, alignY |-> Null, autoResize |-> TRUE,
     update |-> [op |-> "nop"]]

\* Mutant: CENTER places the sprite as LEFT / TOP does.
Sprite__adjustAlign_centerAsLow(e, n, ax) ==
    LET N == e.node[n]
    IN  IF N.parent = Null \/ N[ax.align] = Null THEN e
        ELSE LET P == e.node[N.parent]
                 o == N[ax.originPixel]
             IN  CASE N[ax.align] = ax.low ->
                        [e EXCEPT !.attr[n][ax.pos] = o]
                   [] N[ax.align] = ax.high ->
                        [e EXCEPT !.attr[n][ax.pos] = P[ax.size] - (N[ax.size] - o)]
                   [] N[ax.align] = "CENTER" ->
                        [e EXCEPT !.attr[n][ax.pos] = o]
                   [] OTHER -> e

\* Sprite._adjustAlignX / _adjustAlignY
Sprite__adjustAlign(e, n, ax) ==
    LET N == e.node[n]
    IN  IF N.parent = Null \/ N[ax.align] = Null THEN e
        ELSE LET P == e.node[N.parent]
                 o == N[ax.originPixel]
             IN  CASE N[ax.align] = ax.low ->
                        [e EXCEPT !.attr[n][ax.pos] = o]
                   [] N[ax.align] = ax.high ->
                        [e EXCEPT !.attr[n][ax.pos] = P[ax.size] - (N[ax.size] - o)]
                   [] N[ax.align] = "CENTER" ->
                        [e EXCEPT !.attr[n][ax.pos] =
                                Half(P[ax.size]) + o - Half(N[ax.size])]
                   [] OTHER -> e

RECURSIVE Sprite_setSize(_, _, _, _)
RECURSIVE Sprite__resize(_, _, _)
RECURSIVE Sprite__reLayoutChildren(_, _, _)

\* Mutant: the width / height setter without the re-layout of the children.
Sprite_setSize_noReLayout(e, n, ax, value) ==
    IF e.node[n][ax.size] = value THEN e
    ELSE Sprite__adjustAlign(
            [e EXCEPT !.node[n][ax.size] = value,
                      !.node[n][ax.originPixel] = Times(value, e.node[n][ax.origin])],
            n, ax)

\* Mutant: the width / height setter that leaves the pixel origin as it was.
Sprite_setSize_staleOrigin(e, n, ax, value) ==
    IF e.node[n][ax.size] = value THEN e
    ELSE Sprite__reLayoutChildren(
            Sprite__adjustAlign([e EXCEPT !.node[n][ax.size] = value], n, ax),
            e.node[n].children, ax)

\* Sprite.width / Sprite.height (setters)
Sprite_setSize(e, n, ax, value) ==
    IF e.node[n][ax.size] = value THEN e
    ELSE Sprite__reLayoutChildren(
            Sprite__adjustAlign(
                [e EXCEPT !.node[n][ax.size] = value,
                          !.node[n][ax.originPixel] = Times(value, e.node[n][ax.origin])],
                n, ax),
            e.node[n].children, ax)

\* Sprite._reLayoutChildrenOnWidthChanged / OnHeightChanged
Sprite__reLayoutChildren(e, children, ax) ==
    IF children = <<>> THEN e
    ELSE LET child == Head(children)
         IN  Sprite__reLayoutChildren(
                Sprite__adjustAlign(Sprite__resize(e, child, ax), child, ax),
                Tail(children), ax)

\* this.x = left + this._originPixelX / this.y = top + this._originPixelY
MoveToPin(e, n, ax, pin) ==
    [e EXCEPT !.attr[n][ax.pos] = pin + e.node[n][ax.originPixel]]

\* Mutant: the percentage is used even when both pins are set.
Sprite__resize_percentFirst(e, n, ax) ==
    LET N == e.node[n]
    IN  IF N.parent = Null THEN e
        ELSE LET parent == e.node[N.parent]
             IN  IF N[ax.percent] # Undefined
                 THEN Sprite_setSize(e, n, ax, Times(parent[ax.size], N[ax.percent]))
                 ELSE IF N[ax.near] # Undefined /\ N[ax.far] # Undefined
                      THEN MoveToPin(Sprite_setSize(e, n, ax,
                                        parent[ax.size] - N[ax.near] - N[ax.far]),
                                     n, ax, N[ax.near])
                      ELSE e

\* Sprite._resizeWidth / _resizeHeight
Sprite__resize(e, n, ax) ==
    LET N == e.node[n]
    IN  IF N.parent = Null THEN e
        ELSE LET parent == e.node[N.parent]
             IN  IF N[ax.near] # Undefined /\ N[ax.far] # Undefined
                 THEN MoveToPin(Sprite_setSize(e, n, ax,
                                    parent[ax.size] - N[ax.near] - N[ax.far]),
                                n, ax, N[ax.near])
                 ELSE IF N[ax.percent] # Undefined
                      THEN Sprite_setSize(e, n, ax, Times(parent[ax.size], N[ax.percent]))
                      ELSE e

\* Sprite.originX / Sprite.originY (setters)
Sprite_setOrigin(e, n, ax, value) ==
    IF e.node[n][ax.origin] = value THEN e
    ELSE Sprite__adjustAlign(
            [e EXCEPT !.node[n][ax.origin] = value,
                      !.node[n][ax.originPixel] = Times(e.node[n][ax.size], value)],
            n, ax)

\* Sprite.top / right / bottom / left (setters); side is the name of the pin.
Sprite_setPin(e, n, ax, side, value) ==
    Sprite__resize([e EXCEPT !.node[n].autoResize = FALSE,
                             !.node[n][side] = value], n, ax)

\* Sprite.percentWidth / percentHeight (setters)
Sprite_setPercent(e, n, ax, value) ==
    Sprite__resize([e EXCEPT !.node[n].autoResize = FALSE,
                             !.node[n][ax.percent] = value], n, ax)

\* Sprite.grid (setter); the grid itself is used by the drawing only.
Sprite_setGrid(e, n) == [e EXCEPT !.node[n].autoResize = FALSE]

\* Sprite.alignX / alignY (setters)
Sprite_setAlign(e, n, ax, value) ==
    IF e.node[n][ax.align] = value \/ value \in ax.opposite THEN e
    ELSE Sprite__adjustAlign([e EXCEPT !.node[n][ax.align] = value], n, ax)

\* this.width = ...; this.height = ...
SetBoth(e, n, width, height) ==
    Sprite_setSize(Sprite_setSize(e, n, AxisX, width), n, AxisY, height)

\* Mutant: the texture sizes the sprite whether or not autoResize is set.
Sprite_setTexture_always(e, n, value) ==
    IF value = e.texture[n] THEN e
    ELSE SetBoth([e EXCEPT !.texture[n] = value], n,
                 IF value # Undefined THEN TextureWidth ELSE 0,
                 IF value # Undefined THEN TextureHeight ELSE 0)

\* Sprite.texture (setter), with a ready texture or with undefined.
Sprite_setTexture(e, n, value) ==
    IF value = e.texture[n] THEN e
    ELSE IF ~e.node[n].autoResize THEN [e EXCEPT !.texture[n] = value]
         ELSE SetBoth([e EXCEPT !.texture[n] = value], n,
                      IF value # Undefined THEN TextureWidth ELSE 0,
                      IF value # Undefined THEN TextureHeight ELSE 0)

----------------------------------------------------------------------------
\* Sprite: the tree.

\* Sprite.parent (setter)
Sprite_setParent(e, n, value) ==
    IF value = e.node[n].parent THEN e
    ELSE LET e1 == [e EXCEPT !.node[n].parent = value]
         IN  IF value # Null
             THEN Sprite__adjustAlign(Sprite__adjustAlign(e1, n, AxisX), n, AxisY)
             ELSE e1

RECURSIVE Sprite_setStage(_, _, _)
RECURSIVE StageEach(_, _, _)

\* Mutant: the stage setter that leaves the children as they are.
Sprite_setStage_shallow(e, n, stage) == [e EXCEPT !.node[n].stage = stage]

\* Sprite.stage (setter); the notifications it emits are left out.
Sprite_setStage(e, n, stage) ==
    StageEach([e EXCEPT !.node[n].stage = stage], e.node[n].children, stage)

StageEach(e, children, stage) ==
    IF children = <<>> THEN e
    ELSE StageEach(Sprite_setStage(e, Head(children), stage), Tail(children), stage)

\* children.splice(position, 0, target), positions counted from 0
Splice(children, position, target) ==
    SubSeq(children, 1, position) \o <<target>>
        \o SubSeq(children, position + 1, Len(children))

\* The error thrown by addChild.
\* The position handed to addChild: none, or an index counted from 0.
NoPosition == -1
Positions == {NoPosition, 0, 1}

RECURSIVE AncestorsOrSelf(_, _)
AncestorsOrSelf(nd, n) ==
    IF nd[n].parent = Null THEN {n}
    ELSE {n} \cup AncestorsOrSelf(nd, nd[n].parent)

ChildHasBeenAdded == [ev |-> "error", message |-> "Child has been added."]

\* Mutant: addChild that moves a child from its parent instead of failing.
Sprite_addChild_moves(e, n, target, position) ==
    LET old == e.node[target].parent
        e0 == IF old # Null
              THEN [e EXCEPT !.node[old].children = removeArrayItem(@, target)]
              ELSE e
        children == e0.node[n].children
        e1 == [e0 EXCEPT !.node[n].children =
                    IF position > -1 /\ position < Len(children)
                    THEN Splice(children, position, target)
                    ELSE Append(children, target)]
        e2 == Sprite_setParent(e1, target, n)
        e3 == IF e2.node[n].stage # Null
              THEN Sprite_setStage(e2, target, e2.node[n].stage)
              ELSE e2
    IN  Sprite__resize(Sprite__resize(e3, target, AxisX), target, AxisY)

\* Sprite.addChild
Sprite_addChild(e, n, target, position) ==
    IF e.node[target].parent # Null THEN Emit(e, ChildHasBeenAdded)
    ELSE LET children == e.node[n].children
         IN  IF IndexOf(children, target) = 0
             THEN LET e1 == [e EXCEPT !.node[n].children =
                                IF position > -1 /\ position < Len(children)
                                THEN Splice(children, position, target)
                                ELSE Append(children, target)]
                      e2 == Sprite_setParent(e1, target, n)
                      e3 == IF e2.node[n].stage # Null
                            THEN Sprite_setStage(e2, target, e2.node[n].stage)
                            ELSE e2
                  IN  Sprite__resize(Sprite__resize(e3, target, AxisX), target, AxisY)
             ELSE e

\* Mutant: removeChild that leaves the parent reference of the child.
Sprite_removeChild_keepsParent(e, n, target) ==
    IF IndexOf(e.node[n].children, target) > 0
    THEN Sprite_setStage([e EXCEPT !.node[n].children = removeArrayItem(@, target)],
                         target, Null)
    ELSE e

\* Sprite.removeChild
Sprite_removeChild(e, n, target) ==
    IF e.node[n].children = <<>> THEN e
    ELSE IF IndexOf(e.node[n].children, target) > 0
         THEN LET e1 == [e EXCEPT !.node[n].children = removeArrayItem(@, target)]
              IN  Sprite_setStage(Sprite_setParent(e1, target, Null), target, Null)
         ELSE e

\* Sprite.removeAllChildren
RECURSIVE Sprite_removeAllChildren(_, _, _)
Sprite_removeAllChildren(e, n, recusive) ==
    IF e.node[n].children = <<>> THEN e
    ELSE LET child == Head(e.node[n].children)
             e1 == IF recusive
                   THEN Action_stopSprite(Sprite_removeAllChildren(e, child, TRUE),
                                          child)
                   ELSE e
         IN  Sprite_removeAllChildren(Sprite_removeChild(e1, n, child), n, recusive)

RECURSIVE Sprite_release(_, _, _)
RECURSIVE ReleaseChildren(_, _)

\* Mutant: release that leaves the Actions of the sprite running.
RECURSIVE Sprite_release_keepsActions(_, _, _)
Sprite_release_keepsActions(e, n, recusive) ==
    LET e2 == IF recusive
              THEN ReleaseChildren(e, n)
              ELSE Sprite_removeAllChildren(e, n, FALSE)
        e3 == IF e2.node[n].parent # Null
              THEN Sprite_removeChild(e2, e2.node[n].parent, n)
              ELSE e2
    IN  Emit(e3, [ev |-> "released", node |-> n])

\* Sprite.release; the log entry stands for ReleasePool.instance.add(this).
Sprite_release(e, n, recusive) ==
    LET e1 == Action_stopSprite(e, n)
        e2 == IF recusive
              THEN ReleaseChildren(e1, n)
              ELSE Sprite_removeAllChildren(e1, n, FALSE)
        e3 == IF e2.node[n].parent # Null
              THEN Sprite_removeChild(e2, e2.node[n].parent, n)
              ELSE e2
    IN  Emit(e3, [ev |-> "released", node |-> n])

\* while (this.children.length) this.children[0].release(recusive)
ReleaseChildren(e, n) ==
    IF e.node[n].children = <<>> THEN e
    ELSE ReleaseChildren(Sprite_release(e, Head(e.node[n].children), TRUE), n)

----------------------------------------------------------------------------
\* The behaviour units.  A step returns the engine, the unit as the step
\* left it, and the attribute writes it made on the sprite.

\* BMFontLabel: the sprite s1 is the label, the sprites s2 and s3 are the
\* sprites it constructs for the first and the second word of its text.  A
\* text is a sequence of words (characters), a word is a number.
Label == "s1"
WordSprite == <<"s2", "s3">>

\* The texture map of the label: the words 1 and 2 have a texture, and all
\* the textures have the size TextureWidth x TextureHeight.
TextureMap == (1 :> 11) @@ (2 :> 12)

\* _text and _words are unset in a new label: Unset is the value of no text
\* and of no list of textures.
Unset == <<Undefined>>
NewLabel == [text |-> Unset, words |-> Unset]

NotFound(word) ==
    [ev |-> "error", message |-> <<word, ": the texture of this word not found">>]
NotCallable == [ev |-> "error", message |-> "BMFontLabel:addChild is not callable!"]
TypeError == [ev |-> "error", message |-> "TypeError"]

\* new Sprite({x: i * word.width, texture: word, originX: 0, originY: 0}),
\* i counted from 0; the sprite is a new object.
NewWordSprite(e, n, i, word) ==
    Sprite_setOrigin(
        Sprite_setOrigin(
            Sprite_setTexture([e EXCEPT !.node[n] = NewSprite,
                                        !.texture[n] = Undefined,
                                        !.attr[n] = [x |-> i * TextureWidth, y |-> 0]],
                              n, word),
            n, AxisX, 0),
        n, AxisY, 0)

\* this._words.forEach((word, i) => super.addChild(new Sprite(...)))
RECURSIVE AddWords(_, _)
AddWords(e, i) ==
    IF i > Len(e.label.words) THEN e
    ELSE AddWords(Sprite_addChild(NewWordSprite(e, WordSprite[i], i - 1, e.label.words[i]),
                                  Label, WordSprite[i], NoPosition),
                  i + 1)

\* BMFontLabel.setText from this.removeAllChild() on.  removeAllChild is a
\* method of the Sprite of sprite.ts; it is removeAllChildren of the Sprite
\* modelled here.
SetTextChildren(e) ==
    IF e.label.words = <<>> THEN Sprite_removeAllChildren(e, Label, FALSE)
    ELSE SetBoth(AddWords(Sprite_removeAllChildren(e, Label, FALSE), 1), Label,
                 Len(e.label.words) * TextureWidth, TextureHeight)

\* BMFontLabel.setText.  The text is stored first; an empty text on a label
\* whose _words is unset throws a TypeError; the first word without a texture
\* throws out of words.map, before _words is assigned.
BMFontLabel_setText(e, text) ==
    IF text = <<>>
    THEN IF e.label.words = Unset
         THEN Emit([e EXCEPT !.label.text = text], TypeError)
         ELSE SetTextChildren([e EXCEPT !.label.text = text, !.label.words = <<>>])
    ELSE IF \E i \in 1 .. Len(text) : text[i] \notin DOMAIN TextureMap
         THEN Emit([e EXCEPT !.label.text = text],
                   NotFound(text[CHOOSE i \in 1 .. Len(text) :
                            /\ text[i] \notin DOMAIN TextureMap
                            /\ \A j \in 1 .. i - 1 : text[j] \in DOMAIN TextureMap]))
         ELSE SetTextChildren([e EXCEPT !.label.text = text,
                                !.label.words = [i \in 1 .. Len(text) |-> TextureMap[text[i]]]])

\* BMFontLabel.addChild
BMFontLabel_addChild(e) == Emit(e, NotCallable)

\* Stage: the frame loop.  isRunning is false and timerID is unset when the
\* module is loaded; timers is the set of timeouts that are set and have
\* neither fired nor been cleared.
NewLoop == [isRunning |-> FALSE, timerID |-> Undefined, timers |-> {}]

\* setTimeout returns an id it has not returned before.  An id that no
\* timeout still to fire has and that timerID does not hold can be named by
\* nothing, and is used again.
FreshTimer(l) ==
    CHOOSE id \in 0 .. Cardinality(l.timers) + 1 : id \notin l.timers \cup {l.timerID}

\* startTimer: timerID = setTimeout(...)
startTimer(e) ==
    LET id == FreshTimer(e.loop)
    IN  Emit([e EXCEPT !.loop.timerID = id, !.loop.timers = @ \cup {id}],
             [ev |-> "setTimeout", id |-> id])

\* Stage.start
Stage_start(e, useOuterTimer) ==
    IF ~e.loop.isRunning
    THEN LET e1 == IF ~useOuterTimer THEN startTimer(e) ELSE e
         IN  [Emit(e1, [ev |-> "register"]) EXCEPT !.loop.isRunning = TRUE]
    ELSE e

\* Stage.stop: clearTimeout of an id that has fired, or of none, does nothing.
Stage_stop(e) ==
    IF ~e.loop.isRunning THEN e
    ELSE [Emit(e, [ev |-> "unregister"]) EXCEPT
                !.loop.timers = @ \ {e.loop.timerID},
                !.loop.isRunning = FALSE]

NewCallback(f) ==
    [kind |-> "Callback", func |-> f, done |-> FALSE, immediate |-> TRUE]

\* Mutant: a Delay that is not immediate.
NewDelay_notImmediate(duration) ==
    [kind |-> "Delay", duration |-> duration, elapsed |-> 0, done |-> FALSE,
     immediate |-> FALSE]

NewDelay(duration) ==
    [kind |-> "Delay", duration |-> duration, elapsed |-> 0, done |-> FALSE,
     immediate |-> TRUE]

NewTransition(attrs, duration) ==
    [kind |-> "Transition", attrs |-> attrs, duration |-> duration, elapsed |-> 0,
     starts |-> [n \in {} |-> 0], done |-> FALSE, immediate |-> FALSE]

\* shown is history: the number of frames the unit has assigned so far
\* (modulo the frame count when it repeats forever).
NewAnimation(frames, repetitions) ==
    [kind |-> "Animation", frames |-> frames, interval |-> AnimInterval,
     repetitions |-> repetitions, elapsed |-> 0, count |-> 0, frameIndex |-> 0,
     done |-> FALSE, immediate |-> FALSE, shown |-> 0]

\* The function of a Callback, called with no arguments.
CallFunc(e, f) ==
    CASE f.op = "nop" -> e
      [] f.op = "stop" -> Action_stop(e, f.target)
      [] f.op = "Stage.stop" -> Stage_stop(e)
      [] f.op = "Stage.start" -> Stage_start(e, f.useOuterTimer)

Callback_step(e, u) ==
    IF ~u.done
    THEN [e |-> CallFunc(e, u.func), u |-> [u EXCEPT !.done = TRUE], writes |-> {}]
    ELSE [e |-> e, u |-> u, writes |-> {}]

Delay_step(e, u, dt) ==
    LET elapsed == u.elapsed + dt
    IN  [e |-> e,
         u |-> [u EXCEPT !.elapsed = elapsed,
                         !.done = IF elapsed >= u.duration THEN TRUE ELSE @],
         writes |-> {}]

\* tween.easeInOutQuad(elapsed / duration) * delta, rounded down:
\* 2 t^2 for t < 1/2, and -1 + (4 - 2 t) t from there on.
Ease(elapsed, duration, delta) ==
    LET num == IF 2 * elapsed < duration
               THEN 2 * elapsed * elapsed
               ELSE 4 * elapsed * duration - 2 * elapsed * elapsed
                        - duration * duration
    IN  (num * delta) \div (duration * duration)

\* Mutant: the end of a Transition marks it done without writing the targets.
Transition_end_noSnap(e, s, u) ==
    [e |-> e, u |-> [u EXCEPT !.done = TRUE], writes |-> {}]

Transition_end(e, s, u) ==
    [e |-> [e EXCEPT !.attr[s] = [n \in DOMAIN @ |->
                        IF n \in DOMAIN u.attrs THEN u.attrs[n] ELSE @[n]]],
     u |-> [u EXCEPT !.done = TRUE],
     writes |-> { [name |-> n, val |-> u.attrs[n]] : n \in DOMAIN u.attrs }]

\* Mutant: the start value is read from the sprite on every step.
Transition_step_rereads(e, s, u, dt) ==
    LET elapsed == u.elapsed + dt
        u1 == [u EXCEPT !.elapsed = elapsed]
        start(n) == e.attr[s][n]
        value(n) == start(n) + Ease(elapsed, u.duration, u.attrs[n] - start(n))
    IN  IF elapsed >= u.duration
        THEN Transition_end(e, s, u1)
        ELSE [e |-> [e EXCEPT !.attr[s] = [n \in DOMAIN @ |->
                            IF n \in DOMAIN u.attrs THEN value(n) ELSE @[n]]],
              u |-> [u1 EXCEPT !.starts = [n \in DOMAIN u.attrs |-> start(n)]],
              writes |-> { [name |-> n, val |-> value(n)] : n \in DOMAIN u.attrs }]

Transition_step(e, s, u, dt) ==
    LET elapsed == u.elapsed + dt
        u1 == [u EXCEPT !.elapsed = elapsed]
        start(n) == IF n \notin DOMAIN u.starts THEN e.attr[s][n] ELSE u.starts[n]
        value(n) == start(n) + Ease(elapsed, u.duration, u.attrs[n] - start(n))
    IN  IF elapsed >= u.duration
        THEN Transition_end(e, s, u1)
        ELSE [e |-> [e EXCEPT !.attr[s] = [n \in DOMAIN @ |->
                            IF n \in DOMAIN u.attrs THEN value(n) ELSE @[n]]],
              u |-> [u1 EXCEPT !.starts = [n \in DOMAIN u.attrs |-> start(n)]],
              writes |-> { [name |-> n, val |-> value(n)] : n \in DOMAIN u.attrs }]

Animation_step(e, s, u, dt) ==
    LET elapsed == u.elapsed + dt
        frame == IF u.frameIndex < u.frames THEN u.frameIndex ELSE Undefined
        frameIndex == u.frameIndex + 1
        wraps == frameIndex = u.frames
        again == u.repetitions = NoRepetitions \/ u.count + 1 < u.repetitions
    IN  IF elapsed >= u.interval
        THEN [e |-> Sprite_setTexture(e, s, frame),
              u |-> [u EXCEPT
                        !.elapsed = 0,
                        !.frameIndex = IF wraps /\ again THEN 0 ELSE frameIndex,
                        !.count = IF wraps /\ u.repetitions # NoRepetitions THEN @ + 1 ELSE @,
                        !.done = IF wraps /\ ~again THEN TRUE ELSE @,
                        !.shown = IF u.repetitions = NoRepetitions
                                  THEN (@ + 1) % u.frames ELSE @ + 1],
              writes |-> { [name |-> "texture", val |-> frame] }]
        ELSE [e |-> e, u |-> [u EXCEPT !.elapsed = elapsed], writes |-> {}]

UnitStep(e, a, u, dt) ==
    CASE u.kind = "Callback" -> Callback_step(e, u)
      [] u.kind = "Delay" -> Delay_step(e, u, dt)
      [] u.kind = "Transition" -> Transition_step(e, e.sprite[a], u, dt)
      [] u.kind = "Animation" -> Animation_step(e, e.sprite[a], u, dt)

StepEvent(a, u, r) ==
    [ev |-> "step", act |-> a, unit |-> u, post |-> r.u, writes |-> r.writes]

----------------------------------------------------------------------------
\* Action._step: the head of the queue is stepped; a head that is done is
\* shifted out, and the next one is stepped at once when it was immediate.

\* Mutant: the next head is stepped whether or not the last one was immediate.
RECURSIVE Action__step_alwaysChain(_, _, _)
Action__step_alwaysChain(e, a, dt) ==
    IF e.queue[a] = <<>> THEN e
    ELSE
        LET u == Head(e.queue[a])
            r == UnitStep(e, a, u, dt)
            q1 == IF r.e.queue[a] = <<>> THEN <<>> ELSE <<r.u>> \o Tail(r.e.queue[a])
            e1 == Emit([r.e EXCEPT !.queue[a] = q1], StepEvent(a, u, r))
            q2 == IF q1 = <<>> THEN <<>> ELSE Tail(q1)
            e2 == [e1 EXCEPT !.queue[a] = q2]
        IN  IF r.u.done
            THEN IF q2 = <<>>
                 THEN [e2 EXCEPT !.done[a] = TRUE,
                                 !.running[a] = FALSE,
                                 !.sprite[a] = Null]
                 ELSE Action__step_alwaysChain(e2, a, dt)
            ELSE e1

RECURSIVE Action__step(_, _, _)
RECURSIVE AfterUnitStep(_, _, _, _)

Action__step(e, a, dt) ==
    IF e.queue[a] = <<>> THEN e
    ELSE AfterUnitStep(UnitStep(e, a, Head(e.queue[a]), dt), a, Head(e.queue[a]), dt)

\* Action._step after action.step(deltaTime, sprite), whose result is r
AfterUnitStep(r, a, u, dt) ==
    LET \* the stepped unit is still the head unless the step cleared the queue
        q1 == IF r.e.queue[a] = <<>> THEN <<>> ELSE <<r.u>> \o Tail(r.e.queue[a])
        e1 == Emit([r.e EXCEPT !.queue[a] = q1], StepEvent(a, u, r))
        q2 == IF q1 = <<>> THEN <<>> ELSE Tail(q1)
        e2 == [e1 EXCEPT !.queue[a] = q2]
    IN  IF r.u.done
        THEN IF q2 = <<>>
             THEN [e2 EXCEPT !.done[a] = TRUE,
                             !.running[a] = FALSE,
                             !.sprite[a] = Null]
             ELSE IF r.u.immediate THEN Action__step(e2, a, dt) ELSE e2
        ELSE e1

----------------------------------------------------------------------------
\* Listener

NewListener(actions) ==
    [actions |-> actions, resolved |-> FALSE, any |-> NoCallbacks, all |-> NoCallbacks,
     allFired |-> [c \in Cbs |-> 0], anyFired |-> [c \in Cbs |-> 0]]

\* A saturating count of invocations: 0, 1, or 2 for "more than once".
Bump(n) == IF n < 2 THEN n + 1 ELSE n

RECURSIVE publish(_, _, _, _)
publish(e, l, which, callbackList) ==
    IF callbackList = <<>> THEN e
    ELSE LET c == Head(callbackList)
             e1 == IF which = "all"
                   THEN [e EXCEPT !.listener[l].allFired[c] = Bump(@)]
                   ELSE [e EXCEPT !.listener[l].anyFired[c] = Bump(@)]
         IN  publish(Emit(e1, [ev |-> which, lis |-> l, cb |-> c]), l, which,
                     Tail(callbackList))

Listener_allDone(e, l, c) ==
    IF e.listener[l].resolved
    THEN Emit(e, [ev |-> "sync", lis |-> l, cb |-> c])
    ELSE [e EXCEPT !.listener[l].all =
                        addArrayItem(@, c)]

Listener_anyDone(e, l, c) ==
    IF e.listener[l].resolved
    THEN Emit(e, [ev |-> "sync", lis |-> l, cb |-> c])
    ELSE [e EXCEPT !.listener[l].any =
                        addArrayItem(@, c)]

\* Mutant: a listener that stays registered and unresolved after publishing.
Listener__step_staysListed(e, l) ==
    LET L == e.listener[l]
        allDone == \A a \in L.actions : e.done[a]
        anyDone == \E a \in L.actions : e.done[a]
        e0 == Emit(e, [ev |-> "listener", lis |-> l])
        e1 == IF anyDone /\ L.any # NoCallbacks
              THEN [publish(e0, l, "any", L.any) EXCEPT !.listener[l].any = NoCallbacks]
              ELSE e0
    IN  IF allDone /\ L.all # NoCallbacks
        THEN publish(e1, l, "all", L.all)
        ELSE e1

\* Mutant: the ANY callbacks stay registered after they are published.
Listener__step_keepsAny(e, l) ==
    LET L == e.listener[l]
        allDone == \A a \in L.actions : e.done[a]
        anyDone == \E a \in L.actions : e.done[a]
        e0 == Emit(e, [ev |-> "listener", lis |-> l])
        e1 == IF anyDone /\ L.any # NoCallbacks
              THEN publish(e0, l, "any", L.any)
              ELSE e0
    IN  IF allDone /\ L.all # NoCallbacks
        THEN [publish(e1, l, "all", L.all) EXCEPT
                    !.listenerList = removeArrayItem(@, l),
                    !.listener[l].resolved = TRUE]
        ELSE e1

Listener__step(e, l) ==
    LET L == e.listener[l]
        allDone == \A a \in L.actions : e.done[a]
        anyDone == \E a \in L.actions : e.done[a]
        e0 == Emit(e, [ev |-> "listener", lis |-> l])
        e1 == IF anyDone /\ L.any # NoCallbacks
              THEN [publish(e0, l, "any", L.any) EXCEPT !.listener[l].any = NoCallbacks]
              ELSE e0
    IN  IF allDone /\ L.all # NoCallbacks
        THEN [publish(e1, l, "all", L.all) EXCEPT
                    !.listenerList = removeArrayItem(@, l),
                    !.listener[l].resolved = TRUE]
        ELSE e1

Action_listen(e, actions) ==
    [e EXCEPT !.listener = Append(@, NewListener(actions)),
              !.listenerList = Append(@, Len(e.listener) + 1)]

----------------------------------------------------------------------------
\* Action.step(deltaTime)

\* if (action._done) removeArrayItem(Action._actionList, action)
RemoveIfDone(e, a) ==
    IF e.done[a] THEN [e EXCEPT !.actionList = removeArrayItem(@, a)] ELSE e

RECURSIVE ActionLoop(_, _, _)
ActionLoop(e, i, dt) ==
    IF i > Len(e.actionList) THEN e
    ELSE ActionLoop(
            RemoveIfDone(
                Action__step(Emit(e, [ev |-> "advance", act |-> e.actionList[i]]),
                             e.actionList[i], dt),
                e.actionList[i]),
            i + 1, dt)

RECURSIVE ListenerLoop(_, _)
ListenerLoop(e, snapshot) ==
    IF snapshot = <<>> THEN e
    ELSE ListenerLoop(Listener__step(e, Head(snapshot)), Tail(snapshot))

\* Mutant: the listeners are evaluated before the Actions are advanced.
Action_step_listenersFirst(e, dt) ==
    ActionLoop(ListenerLoop(e, e.listenerList), 1, dt)

\* Action._listenerList.slice().forEach(listener => listener._step())
StepListeners(e) == ListenerLoop(e, e.listenerList)

Action_step(e, dt) == StepListeners(ActionLoop(e, 1, dt))

----------------------------------------------------------------------------
\* Sprite._update and Stage.step

\* The update hook of a sprite, called with deltaTime.  "adopt" adds the
\* target if it has no parent and is not an ancestor, "toFront" moves a child
\* to position 0.
CallHook(e, f) ==
    CASE f.op = "nop" -> e
      [] f.op = "Stage.stop" -> Stage_stop(e)
      [] f.op = "removeChild" -> Sprite_removeChild(e, f.parent, f.target)
      [] f.op = "adopt" ->
            IF e.node[f.target].parent = Null
                    /\ f.target \notin AncestorsOrSelf(e.node, f.parent)
            THEN Sprite_addChild(e, f.parent, f.target, NoPosition)
            ELSE e
      [] f.op = "toFront" ->
            IF e.node[f.target].parent = f.parent
            THEN Sprite_addChild(Sprite_removeChild(e, f.parent, f.target),
                                 f.parent, f.target, 0)
            ELSE e

RECURSIVE Sprite__update(_, _, _, _)
RECURSIVE UpdateEach(_, _, _, _)
RECURSIVE UpdateLive(_, _, _, _)
RECURSIVE UpdateChildren(_, _, _)

\* Mutant: the children are iterated in the list itself, not in a copy.
Sprite__update_live(e, n, by, deltaTime) ==
    UpdateLive(CallHook(Emit(e, [ev |-> "_update", node |-> n, by |-> by]),
                        e.node[n].update),
               n, 1, deltaTime)

\* Sprite._update; the FRAME notification is left out.  by is the caller.
Sprite__update(e, n, by, deltaTime) ==
    UpdateChildren(CallHook(Emit(e, [ev |-> "_update", node |-> n, by |-> by]),
                            e.node[n].update),
                   n, deltaTime)

\* if (this.children && this.children.length) this.children.slice().forEach(...)
UpdateChildren(e, n, deltaTime) == UpdateEach(e, n, e.node[n].children, deltaTime)

\* this.children.slice().forEach(child => child._update(deltaTime))
UpdateEach(e, n, snapshot, deltaTime) ==
    IF snapshot = <<>> THEN e
    ELSE UpdateEach(Sprite__update(e, Head(snapshot), n, deltaTime),
                    n, Tail(snapshot), deltaTime)

\* forEach over the list itself: index i of the list as it is now.
UpdateLive(e, n, i, deltaTime) ==
    IF i > Len(e.node[n].children) THEN e
    ELSE UpdateLive(Sprite__update(e, e.node[n].children[i], n, deltaTime),
                    n, i + 1, deltaTime)

\* Stage.step; the drawing is left out.
Stage_step(e, deltaTime) ==
    Sprite__update(Action_step(e, deltaTime), "root", "Stage", deltaTime)

\* The function startTimer hands to setTimeout, run when timeout id fires:
\* step(getDeltaTime()); startTimer()
Timeout(e, id, deltaTime) ==
    startTimer(Stage_step([e EXCEPT !.loop.timers = @ \ {id}], deltaTime))

----------------------------------------------------------------------------
\* The operations of the program

Op(name, arg) == Emit(Eng, [ev |-> name, arg |-> arg])

InitEngine ==
    /\ queue = [a \in Actions |-> <<>>]
    /\ done = [a \in Actions |-> FALSE]
    /\ running = [a \in Actions |-> FALSE]
    /\ actionList = <<>>
    /\ listenerList = <<>>
    /\ listener = <<>>
    /\ attr = [s \in Nodes |-> [n \in {"x", "y"} |-> 0]]
    /\ texture = [s \in Nodes |-> Undefined]
    /\ node = [s \in Nodes |-> NewSprite]
    /\ loop = NewLoop
    /\ label = NewLabel
    /\ log = <<>>

\* new Action(sprite): the two Actions are on one sprite, or on two.
Init ==
    /\ InitEngine
    /\ sprite \in { [a \in Actions |-> "s1"],
                    [a \in Actions |-> IF a = "a1" THEN "s1" ELSE "s2"] }

Then(a, f) ==
    /\ Len(queue[a]) < MaxQueue
    /\ Commit([Op("then", a) EXCEPT !.queue[a] = Append(@, NewCallback(f))])

Wait(a, time) ==
    /\ Len(queue[a]) < MaxQueue
    /\ Commit([Op("wait", a) EXCEPT !.queue[a] = Append(@, NewDelay(time))])

\* The sprite of an Action whose queue has drained is null; a Transition
\* stepped or an Animation queued then throws a TypeError, which is left out.
To(a, attrs, duration) ==
    /\ Len(queue[a]) < MaxQueue
    /\ sprite[a] # Null
    /\ Commit([Op("to", a) EXCEPT
                    !.queue[a] = Append(@, NewTransition(attrs, duration))])

Animate(a, frames, repetitions) ==
    /\ Len(queue[a]) < MaxQueue
    /\ sprite[a] # Null
    /\ LET anim == NewAnimation(frames, repetitions)
           e == Op("animate", a)
           r == Animation_step(e, e.sprite[a], anim, anim.interval)
       IN  Commit(Emit([r.e EXCEPT !.queue[a] = Append(@, r.u)],
                       StepEvent(a, anim, r)))

Start(a) ==
    /\ a \in Actions
    /\ Commit(Action_start(Op("start", a), a))

Stop(a) ==
    /\ a \in Actions
    /\ Commit(Action_stop(Op("stop", a), a))

StopSprite(s) ==
    /\ s \in Sprites
    /\ Commit(Action_stopSprite(Op("stopSprite", s), s))

Listen(actions) ==
    /\ Len(listener) < MaxListeners
    /\ Commit(Action_listen(Op("listen", actions), actions))

AllDone(l, c) ==
    /\ l \in 1 .. Len(listener)
    /\ Commit(Listener_allDone(Op("allDone", l), l, c))

AnyDone(l, c) ==
    /\ l \in 1 .. Len(listener)
    /\ Commit(Listener_anyDone(Op("anyDone", l), l, c))

\* The log of a tick does not name deltaTime: the units logged show it.
Tick(dt) ==
    /\ dt \in DtSet
    /\ Commit(Action_step(Op("tick", 0), dt))

\* The engine: two Actions of Callbacks and Delays, started, stopped and ticked.
Next ==
    \/ \E a \in Actions, f \in Funcs : Len(queue[a]) < MaxEngineQueue /\ Then(a, f)
    \/ \E a \in Actions, d \in Durations : Len(queue[a]) < MaxEngineQueue /\ Wait(a, d)
    \/ \E a \in Actions : Start(a)
    \/ \E a \in Actions : Stop(a)
    \/ \E s \in Sprites : StopSprite(s)
    \/ \E dt \in DtSet : Tick(dt)

Spec == Init /\ [][Next]_vars

\* One Action that is given at most one finite behaviour while it is not
\* running, is started, and is ticked again and again.
NextLive ==
    \/ ~running["a1"] /\ queue["a1"] = <<>> /\ Then("a1", Nop)
    \/ \E d \in Durations : ~running["a1"] /\ queue["a1"] = <<>> /\ Wait("a1", d)
    \/ \E t \in Targets, d \in Durations :
            ~running["a1"] /\ queue["a1"] = <<>> /\ To("a1", t, d)
    \/ ~running["a1"] /\ queue["a1"] = <<>> /\ Animate("a1", 2, 1)
    \/ Start("a1")
    \/ \E dt \in DtSet : Tick(dt)

\* The frame loop ticks as long as the program runs.
SpecLive == Init /\ [][NextLive]_vars /\ WF_vars(\E dt \in DtSet : Tick(dt))

\* One Action and its queue of Callbacks, Delays, Transitions and Animations
\* of two frames shown once.
InitChain ==
    /\ InitEngine
    /\ sprite = [a \in Actions |-> "s1"]

NextChain ==
    \/ \E f \in ChainFuncs : Then("a1", f)
    \/ \E d \in Durations : Wait("a1", d)
    \/ \E t \in Targets, d \in Durations : To("a1", t, d)
    \/ Animate("a1", 2, 1)
    \/ Start("a1")
    \/ Stop("a1")
    \/ StopSprite("s1")
    \/ \E dt \in DtSet : Tick(dt)

SpecChain == InitChain /\ [][NextChain]_vars

\* One Action and its queue of Animations and Callbacks.
NextAnim ==
    \/ Len(queue["a1"]) < MaxAnimQueue /\ Then("a1", Nop)
    \/ \E shape \in AnimShapes :
            Len(queue["a1"]) < MaxAnimQueue /\ Animate("a1", shape[1], shape[2])
    \/ Start("a1")
    \/ Stop("a1")
    \/ \E dt \in DtSet : Tick(dt)

SpecAnim == InitChain /\ [][NextAnim]_vars

\* Listeners over two Actions of at most one unit each.
NextListener ==
    \/ \E a \in Actions : queue[a] = <<>> /\ Then(a, Nop)
    \/ \E a \in Actions : Start(a)
    \/ \E a \in Actions : Stop(a)
    \/ \E actions \in ListenSets : Listen(actions)
    \/ \E l \in 1 .. Len(listener), c \in AllCbs : AllDone(l, c)
    \/ \E l \in 1 .. Len(listener), c \in AnyCbs : AnyDone(l, c)
    \/ \E dt \in DtSet : Tick(dt)

SpecListener == InitChain /\ [][NextListener]_vars

----------------------------------------------------------------------------
\* The operations on the tree of sprites

\* A sprite added to itself or to one of its descendants makes a cycle, on
\* which the stage setter, removeAllChildren(true) and release(true) do not
\* return; this is left out.  The root sprite of the stage is a child of none.
AddChild(n, target, position) ==
    /\ target # "root"
    /\ target \notin AncestorsOrSelf(node, n)
    /\ Commit(Sprite_addChild(Op("addChild", <<n, target>>), n, target, position))

RemoveChild(n, target) ==
    /\ n \in Nodes
    /\ Commit(Sprite_removeChild(Op("removeChild", <<n, target>>), n, target))

RemoveAllChildren(n, recusive) ==
    /\ n \in Nodes
    /\ Commit(Sprite_removeAllChildren(Op("removeAllChildren", <<n, recusive>>),
                                       n, recusive))

Release(n, recusive) ==
    /\ n \in Nodes
    /\ Commit(Sprite_release(Op("release", <<n, recusive>>), n, recusive))

\* The Stage puts itself on its root sprite, or takes itself from it.
SetStage(stage) ==
    /\ stage \in {"stage", Null}
    /\ node["root"].stage # stage
    /\ Commit(Sprite_setStage(Op("stage", stage), "root", stage))

\* The tree of the four sprites; no Action is started.
NextTree ==
    \/ \E n \in Nodes, target \in Nodes, position \in Positions :
            AddChild(n, target, position)
    \/ \E n, target \in Nodes : RemoveChild(n, target)
    \/ \E n \in Nodes, recusive \in BOOLEAN : RemoveAllChildren(n, recusive)
    \/ \E n \in Nodes, recusive \in BOOLEAN : Release(n, recusive)
    \/ \E stage \in {"stage", Null} : SetStage(stage)

SpecTree == InitChain /\ [][NextTree]_vars

\* addChild with any sprite as target.  No sprite is on a stage and none has
\* pins or a percentage: with them, addChild of an ancestor does not return.
AddChildOfAny(n, target, position) ==
    /\ n \in Nodes /\ target \in Nodes
    /\ Commit(Sprite_addChild(Op("addChild", <<n, target>>), n, target, position))

\* The sprites s1, s2 and s3 added to each other, themselves and their
\* ancestors included.
\* removeAllChildren(true) and release(true) do not return on a cycle of
\* sprites and are left out.
NextCycle ==
    \/ \E n, target \in Nodes \ {"root"} : AddChildOfAny(n, target, NoPosition)
    \/ \E n, target \in Nodes \ {"root"} : RemoveChild(n, target)
    \/ \E n \in Nodes \ {"root"} : RemoveAllChildren(n, FALSE)
    \/ \E n \in Nodes \ {"root"} : Release(n, FALSE)

SpecCycle == InitChain /\ [][NextCycle]_vars

\* Two Actions of at most one Transition each, on sprites of a tree that are
\* released.
NextRelease ==
    \/ \E n \in {"root", "s1"}, target \in Sprites : AddChild(n, target, NoPosition)
    \/ \E a \in Actions, t \in Targets, d \in Durations :
            queue[a] = <<>> /\ To(a, t, d)
    \/ \E a \in Actions : Start(a)
    \/ \E n \in {"root"} \cup Sprites, recusive \in BOOLEAN : Release(n, recusive)
    \/ \E dt \in DtSet : Tick(dt)

SpecRelease == Init /\ [][NextRelease]_vars

----------------------------------------------------------------------------
\* The operations on the layout of a sprite

SetSize(n, ax, value) ==
    /\ ax \in Axes
    /\ Commit(Sprite_setSize(Op(ax.size, <<n, value>>), n, ax, value))

SetOrigin(n, ax, value) ==
    /\ ax \in Axes
    /\ Commit(Sprite_setOrigin(Op(ax.origin, <<n, value>>), n, ax, value))

SetPin(n, ax, side, value) ==
    /\ side \in {ax.near, ax.far}
    /\ Commit(Sprite_setPin(Op(side, <<n, value>>), n, ax, side, value))

SetPercent(n, ax, value) ==
    /\ ax \in Axes
    /\ Commit(Sprite_setPercent(Op(ax.percent, <<n, value>>), n, ax, value))

SetAlign(n, ax, value) ==
    /\ value \in AlignType
    /\ Commit(Sprite_setAlign(Op(ax.align, <<n, value>>), n, ax, value))

SetTexture(n, value) ==
    /\ n \in Nodes
    /\ Commit(Sprite_setTexture(Op("texture", <<n, value>>), n, value))

\* The resolution the stage is initialized with, the sizes given to the root
\* sprite and to its child, the origin given to the child, the pins of the
\* near and of the far side, and the percentage (a half).
StageSize == Px(200)
ParentSizes == {Px(200), Px(300)}
ChildSizes == {Px(50)}
Origins == {0}
NearPin == Px(10)
FarPin == Px(20)
Percents == {1}

\* Stage.init: the root sprite is constructed with x, y, width and height.
Stage_init(e) ==
    SetBoth([e EXCEPT !.attr["root"] = [x |-> Half(StageSize), y |-> Half(StageSize)]],
            "root", StageSize, StageSize)

\* The engine and the sprites as constructed.
NewEngine ==
    [queue |-> [a \in Actions |-> <<>>],
     done |-> [a \in Actions |-> FALSE],
     running |-> [a \in Actions |-> FALSE],
     sprite |-> [a \in Actions |-> "s1"],
     actionList |-> <<>>, listenerList |-> <<>>, listener |-> <<>>,
     attr |-> [s \in Nodes |-> [n \in {"x", "y"} |-> 0]],
     texture |-> [s \in Nodes |-> Undefined],
     node |-> [s \in Nodes |-> NewSprite],
     loop |-> NewLoop,
     label |-> NewLabel,
     log |-> <<>>]

\* The state after Stage.init.
InitLayout ==
    LET e == Stage_init(NewEngine)
    IN  /\ queue = e.queue
        /\ done = e.done
        /\ running = e.running
        /\ sprite = e.sprite
        /\ actionList = e.actionList
        /\ listenerList = e.listenerList
        /\ listener = e.listener
        /\ attr = e.attr
        /\ texture = e.texture
        /\ node = e.node
        /\ loop = e.loop
        /\ label = e.label
        /\ log = e.log

\* Edge pins: the child s1 of the root is pinned, the root is resized.
NextPin ==
    \/ AddChild("root", "s1", NoPosition)
    \/ RemoveChild("root", "s1")
    \/ \E ax \in Axes, value \in ParentSizes : SetSize("root", ax, value)
    \/ \E ax \in Axes : SetPin("s1", ax, ax.near, NearPin)
    \/ \E ax \in Axes : SetPin("s1", ax, ax.far, FarPin)

SpecPin == InitLayout /\ [][NextPin]_vars

\* Alignment: the child s1 of the root is aligned, and it, its origin and the
\* root are resized.
NextAlign ==
    \/ AddChild("root", "s1", NoPosition)
    \/ \E ax \in Axes, value \in ParentSizes : SetSize("root", ax, value)
    \/ \E ax \in Axes, value \in ChildSizes : SetSize("s1", ax, value)
    \/ \E ax \in Axes, value \in Origins : SetOrigin("s1", ax, value)
    \/ \E ax \in Axes, value \in AlignType : SetAlign("s1", ax, value)

SpecAlign == InitLayout /\ [][NextAlign]_vars

\* Sizes and origins: every way the size of the root and of its child s1
\* changes; s1 is pinned left and right, and has a percentage of the height.
NextOrigin ==
    \/ AddChild("root", "s1", NoPosition)
    \/ RemoveChild("root", "s1")
    \/ \E ax \in Axes, value \in ParentSizes : SetSize("root", ax, value)
    \/ \E ax \in Axes, value \in Origins : SetOrigin("s1", ax, value)
    \/ SetPin("s1", AxisX, "left", NearPin)
    \/ SetPin("s1", AxisX, "right", FarPin)
    \/ \E value \in Percents : SetPercent("s1", AxisY, value)
    \/ \E value \in {0, Undefined} : SetTexture("s1", value)

SpecOrigin == InitLayout /\ [][NextOrigin]_vars

----------------------------------------------------------------------------
\* The operations of the Stage

\* The timeouts set and still to fire are at most MaxTimers.
MaxTimers == 2
TimersBounded == Cardinality(loop'.timers) <= MaxTimers

StageStart(useOuterTimer) ==
    /\ Commit(Stage_start(Op("Stage.start", useOuterTimer), useOuterTimer))
    /\ TimersBounded

StageStop ==
    Commit(Stage_stop(Op("Stage.stop", 0)))

\* A timeout fires: the browser runs its function.
Fire(id, dt) ==
    /\ id \in loop.timers
    /\ Commit(Timeout(Op("timeout", id), id, dt))
    /\ TimersBounded

\* The outer timer of the caller: Stage.step(deltaTime)
Step(dt) ==
    /\ dt \in DtSet
    /\ Commit(Stage_step(Op("Stage.step", 0), dt))

\* sprite.update = f
SetUpdate(n, f) ==
    /\ node[n].update # f
    /\ Commit([Op("update", <<n, f>>) EXCEPT !.node[n].update = f])

\* The functions that stop and start the stage.
StageStopFunc == [op |-> "Stage.stop"]
StageStartFunc == [op |-> "Stage.start", useOuterTimer |-> FALSE]

\* The frame loop: the stage is started and stopped, by the program and by a
\* callback of the Action a1 or the update hook of the root sprite, and is
\* driven by its timeouts and by the caller.
NextStage ==
    \/ \E useOuterTimer \in BOOLEAN : StageStart(useOuterTimer)
    \/ StageStop
    \/ \E id \in loop.timers : Fire(id, 1)
    \/ Step(1)
    \/ \E f \in {StageStopFunc, StageStartFunc} : Then("a1", f)
    \/ Start("a1")
    \/ \E f \in {Nop, StageStopFunc} : SetUpdate("root", f)

SpecStage == InitLayout /\ [][NextStage]_vars

SetGrid(n) ==
    /\ n \in Nodes
    /\ Commit(Sprite_setGrid(Op("grid", <<n>>), n))

\* Textures: s1 is given textures and a size, it is pinned, given a
\* percentage and a grid, and an Animation of two frames gives it textures.
NextTexture ==
    \/ \E value \in {0, 1} : SetTexture("s1", value)
    \/ \E ax \in Axes, value \in ChildSizes : SetSize("s1", ax, value)
    \/ AddChild("root", "s1", NoPosition)
    \/ SetPin("s1", AxisX, "left", NearPin)
    \/ \E value \in Percents : SetPercent("s1", AxisY, value)
    \/ SetGrid("s1")
    \/ queue["a1"] = <<>> /\ Animate("a1", 2, 1)
    \/ Start("a1")
    \/ \E dt \in DtSet : Tick(dt)

SpecTexture == InitLayout /\ [][NextTexture]_vars

\* Percentages: a half, and the whole.
ChildPercents == {1, 2}

\* Percent sizes: s1 is a child of the root sprite and s2 a child of s1; the
\* root sprite is resized, s1 is given percentages, pins on the x axis and a
\* texture, s2 is given a percentage of the width.
NextPercent ==
    \/ AddChild("root", "s1", NoPosition)
    \/ AddChild("s1", "s2", NoPosition)
    \/ RemoveChild("root", "s1")
    \/ \E ax \in Axes, value \in ParentSizes : SetSize("root", ax, value)
    \/ \E value \in ChildPercents : SetPercent("s1", AxisX, value)
    \/ \E value \in Percents : SetPercent("s1", AxisY, value)
    \/ \E value \in Percents : SetPercent("s2", AxisX, value)
    \/ SetPin("s1", AxisX, "left", NearPin)
    \/ SetPin("s1", AxisX, "right", FarPin)
    \/ SetTexture("s1", 0)

SpecPercent == InitLayout /\ [][NextPercent]_vars

\* sprite[name] = value, by the program
SetAttr(s, name, value) ==
    /\ s \in Nodes
    /\ Commit([Op("set", <<s, name, value>>) EXCEPT !.attr[s][name] = value])

\* The tick, with the attributes as they were before it in its history.
TickFrom(dt) ==
    /\ dt \in DtSet
    /\ Commit(Action_step(Op("tick", attr), dt))

\* The duration of a long Transition (2 s), and the value the program gives
\* to an attribute.
LongDuration == 4
Elsewhere == 100

\* One Transition at a time, of x and y of the sprite s1, which the program
\* moves as well.
NextTransition ==
    \/ \E t \in Targets : queue["a1"] = <<>> /\ To("a1", t, LongDuration)
    \/ Start("a1")
    \/ \E name \in {"x", "y"}, value \in {0, Elsewhere} : SetAttr("s1", name, value)
    \/ \E dt \in DtSet : TickFrom(dt)

SpecTransition == InitChain /\ [][NextTransition]_vars

\* The words of a text, 9 being a word without a texture, and the texts of
\* as many words as there are sprites for them.
Words == {1, 2, 9}
Texts == UNION { [1 .. k -> Words] : k \in 0 .. Len(WordSprite) }

SetText(text) ==
    /\ text \in Texts
    /\ Commit(BMFontLabel_setText(Op("setText", text), text))

LabelAddChild ==
    Commit(BMFontLabel_addChild(Op("BMFontLabel.addChild", 0)))

\* The label: its text is set, it is added to and removed from the root
\* sprite, and the stage puts itself on the root sprite.
NextLabel ==
    \/ \E text \in Texts : SetText(text)
    \/ LabelAddChild
    \/ AddChild("root", Label, NoPosition)
    \/ RemoveChild("root", Label)
    \/ \E stage \in {"stage", Null} : SetStage(stage)

SpecLabel == InitLayout /\ [][NextLabel]_vars

\* The update hooks that change the children of the root sprite while the
\* root sprite is updating them.
UpdateHooks ==
    { [op |-> "removeChild", parent |-> "root", target |-> "s1"],
      [op |-> "removeChild", parent |-> "root", target |-> "s2"],
      [op |-> "adopt", parent |-> "root", target |-> "s3"],
      [op |-> "toFront", parent |-> "root", target |-> "s2"] }

\* The update traversal: a tree of the root sprite, s1, s2 and s3 is built,
\* s1 and s2 are given update hooks, and the caller steps the stage.
NextUpdate ==
    \/ \E n \in {"root", "s1"}, target \in Sprites \cup {"s3"},
           position \in {NoPosition, 0} : AddChild(n, target, position)
    \/ \E target \in Sprites \cup {"s3"} : RemoveChild("root", target)
    \/ \E n \in Sprites, f \in UpdateHooks \cup {Nop} : SetUpdate(n, f)
    \/ Step(1)

SpecUpdate == InitLayout /\ [][NextUpdate]_vars

----------------------------------------------------------------------------
\* Reading the log of the last operation

IsTick(l) == l # <<>> /\ l[1].ev = "tick"

\* The units of Action a stepped by the operation, in the order stepped.
StepsIn(l, a) == SelectSeq(l, LAMBDA event : event.ev = "step" /\ event.act = a)

\* The Actions whose head was advanced by the loop of Action.step, in order.
AdvancesIn(l) == SelectSeq(l, LAMBDA event : event.ev = "advance")

StoppedIn(l, a) == \E i \in 1 .. Len(l) : l[i].ev = "stopped" /\ l[i].act = a

----------------------------------------------------------------------------
\* C1

C1Queue == << NewCallback(Nop), NewDelay(2), NewCallback(Nop) >>

\* A tick of 1.5 s on the started Action with the queue [Callback, Delay(1.0),
\* Callback]: the Delay, stepped from 0, has 1.5 s elapsed.
C1Tick ==
    /\ queue["a1"] = C1Queue
    /\ running["a1"]
    /\ IsTick(log')
    /\ \E i \in 1 .. Len(log') :
            /\ log'[i].ev = "step"
            /\ log'[i].unit = NewDelay(2)
            /\ log'[i].post.elapsed = 3

----------------------------------------------------------------------------
\* C2

\* What one tick did to the queue q of an active Action a is what the claim
\* says: the units stepped are the first ones of q, in order; every one but
\* the last stepped was done and immediate; the stepping went on as long as
\* that held; and the units that were done are the ones shifted out.
C2Chain(q, l, qAfter, a) ==
    LET S == StepsIn(l, a)
        n == Len(S)
        last == S[n]
        stopped == StoppedIn(l, a)
        popped == IF last.post.done THEN n ELSE n - 1
    IN  /\ n >= 1 /\ n <= Len(q)
        /\ \A i \in 1 .. n : S[i].unit = q[i]
        /\ \A i \in 1 .. (n - 1) :
                /\ S[i].post.done /\ S[i].unit.immediate
                /\ S[i].unit.kind \notin {"Transition", "Animation"}
        /\ (last.post.done /\ last.unit.kind = "Callback" /\ ~stopped) => n = Len(q)
        /\ (last.post.done /\ last.unit.immediate /\ ~stopped) => n = Len(q)
        /\ qAfter = IF stopped THEN <<>>
                    ELSE IF last.post.done THEN SubSeq(q, popped + 1, Len(q))
                    ELSE <<last.post>> \o SubSeq(q, n + 1, Len(q))

\* C2: in a tick only the head of the queue is stepped, the units complete in
\* queue order, and the next head is stepped in the same tick exactly when the
\* unit shifted out was immediate (consecutive Callbacks fire in one tick; the
\* unit after a completed Transition or Animation waits for the next tick).
C2_HeadOnlyChaining ==
    [][(IsTick(log') /\ IndexOf(actionList, "a1") > 0 /\ queue["a1"] # <<>>) =>
            C2Chain(queue["a1"], log', queue'["a1"], "a1")]_vars

\* A tick fired a Callback and went on to complete the Transition behind it,
\* and left the Callback behind the Transition in the queue.
C2_Witness ==
    /\ IsTick(log)
    /\ LET S == StepsIn(log, "a1")
       IN  /\ Len(S) = 2
           /\ S[1].unit.kind = "Callback"
           /\ S[2].unit.kind = "Transition" /\ S[2].post.done
    /\ Len(queue["a1"]) = 1
    /\ queue["a1"][1].kind = "Callback"

----------------------------------------------------------------------------
\* C3

InList(a) == IndexOf(actionList, a) > 0

AdvanceCount(l, a) ==
    Cardinality({ i \in 1 .. Len(l) : l[i].ev = "advance" /\ l[i].act = a })

\* C3: in one Action.step every Action that is in the active list when the
\* tick begins, and is not stopped during the tick, has its head advanced
\* exactly once.
C3_EveryActiveStepAdvancedOnce ==
    [][IsTick(log') =>
        \A a \in Actions :
            (InList(a) /\ ~StoppedIn(log', a)) => AdvanceCount(log', a) = 1]_vars

----------------------------------------------------------------------------
\* C7

\* An Action whose queue the tick emptied by advancing it is done, not running,
\* without sprite and out of the active list.
C7Drained ==
    \A a \in Actions :
        (/\ AdvanceCount(log', a) > 0
         /\ ~StoppedIn(log', a)
         /\ queue[a] # <<>>
         /\ queue'[a] = <<>>)
        => /\ done'[a] /\ ~running'[a]
           /\ sprite'[a] = Null
           /\ IndexOf(actionList', a) = 0

C7NoDoneLeft == \A a \in Actions : IndexOf(actionList', a) > 0 => ~done'[a]

\* C7: an Action whose queue a tick drains is done, not running, without node
\* and out of the active list when the tick ends; and at the end of every tick
\* no done Action is in the active list.
C7_DrainedStepRetired == [][IsTick(log') => C7Drained /\ C7NoDoneLeft]_vars

\* The first half of C7 alone, which the code keeps.
C7_DrainedHalf == [][IsTick(log') => C7Drained]_vars

----------------------------------------------------------------------------
\* C6

NoDuplicates(list) ==
    \A i, j \in 1 .. Len(list) : list[i] = list[j] => i = j

\* C6: start() on a running Action changes neither the Action nor the active
\* list, and no Action is ever twice in the active list.
C6_StartIdempotent ==
    [][/\ NoDuplicates(actionList')
       /\ \A a \in Actions :
            (log'[1] = [ev |-> "start", arg |-> a] /\ running[a]) =>
                UNCHANGED << queue, done, running, sprite, actionList,
                             listenerList, listener, attr, texture >>]_vars

\* start() was called on an Action that was running, both Actions active.
C6_Witness ==
    /\ log = << [ev |-> "start", arg |-> "a1"] >>
    /\ running["a1"]
    /\ Len(actionList) = 2

----------------------------------------------------------------------------
\* C5

Stopped(a) ==
    /\ done[a] /\ ~running[a]
    /\ queue[a] = <<>>
    /\ ~InList(a)

\* The last operation called stop() on Action a: a.stop(), or Action.stop on
\* the sprite of a while a was in the active list.
StopCalled(a) ==
    \/ log'[1] = [ev |-> "stop", arg |-> a]
    \/ log'[1].ev = "stopSprite" /\ log'[1].arg = sprite[a] /\ InList(a)

\* C5: stop() leaves the Action done, not running, with an empty queue and out
\* of the active list, and leaves the attributes and the texture of the sprites
\* as they are; on a stopped Action it changes nothing; and a tick steps only
\* units that are in the queue of an active Action when the tick begins.
C5_StopIsSynchronous ==
    [][\A a \in Actions :
        /\ StopCalled(a) =>
            /\ done'[a] /\ ~running'[a]
            /\ queue'[a] = <<>>
            /\ IndexOf(actionList', a) = 0
            /\ attr' = attr /\ texture' = texture
            /\ Stopped(a) =>
                    UNCHANGED << queue, done, running, sprite, actionList,
                                 listenerList, listener, attr, texture >>
        /\ IsTick(log') =>
            /\ Len(StepsIn(log', a)) <= Len(queue[a])
            /\ \A i \in 1 .. Len(StepsIn(log', a)) :
                    StepsIn(log', a)[i].unit = queue[a][i]
            /\ ~InList(a) => StepsIn(log', a) = <<>>]_vars

\* stop() discarded queued units after a Transition had written the sprite.
C5_Witness ==
    /\ log # <<>>
    /\ log[1] = [ev |-> "stop", arg |-> "a1"]
    /\ \E i \in 1 .. Len(log) : log[i].ev = "stopped" /\ log[i].dropped >= 2
    /\ attr["s1"]["x"] = 2
    /\ Stopped("a1")

----------------------------------------------------------------------------
\* C8

IsStepOf(event, kind) == event.ev = "step" /\ event.unit.kind = kind

\* C8: the step of a Transition that brings its elapsed time to the duration or
\* beyond writes every targeted attribute its dest and nothing else, leaves the
\* attributes at dest, and leaves the Transition done.
C8_TransitionEndSnap ==
    \A i \in 1 .. Len(log) :
        (IsStepOf(log[i], "Transition")
            /\ log[i].post.elapsed >= log[i].unit.duration) =>
            LET u == log[i].unit
            IN  /\ log[i].post.done
                /\ log[i].writes = { [name |-> n, val |-> u.attrs[n]] : n \in DOMAIN u.attrs }
                /\ \A n \in DOMAIN u.attrs : attr["s1"][n] = u.attrs[n]

\* A Transition of two attributes reached its duration on its second step.
C8_Witness ==
    \E i \in 1 .. Len(log) :
        /\ IsStepOf(log[i], "Transition")
        /\ log[i].unit.elapsed = 1
        /\ log[i].post.elapsed >= log[i].unit.duration
        /\ DOMAIN log[i].unit.attrs = {"x", "y"}
        /\ attr["s1"] = log[i].unit.attrs

----------------------------------------------------------------------------
\* C9

\* C9: an Animation of n frames and r repetitions assigns the frames 0 .. n-1
\* in order r times, the first when it is queued, and is done exactly when it
\* has assigned n * r frames; without repetitions it assigns the frames in
\* order for ever and is never done.
C9_FramesInOrder ==
    /\ \A i \in 1 .. Len(log) :
        IsStepOf(log[i], "Animation") =>
            LET u == log[i].unit
                post == log[i].post
            IN  /\ log[i].writes # {} =>
                    /\ log[i].writes = { [name |-> "texture", val |-> u.shown % u.frames] }
                    /\ u.repetitions # NoRepetitions => u.shown < u.frames * u.repetitions
                /\ post.done <=> (/\ u.repetitions # NoRepetitions
                                  /\ post.shown = u.frames * u.repetitions)
    /\ (log # <<>> /\ log[1].ev = "animate") =>
            /\ Len(log) = 2
            /\ IsStepOf(log[2], "Animation")
            /\ log[2].writes = { [name |-> "texture", val |-> 0] }

----------------------------------------------------------------------------
\* C4

IsStepEvent(event) == event.ev \in {"advance", "step"}
IsListenerEvent(event) == event.ev \in {"listener", "any", "all"}

Fired(l, which, lis, c) ==
    \E i \in 1 .. Len(l) : l[i] = [ev |-> which, lis |-> lis, cb |-> c]

InSeq(list, x) == \E i \in 1 .. Len(list) : list[i] = x

----------------------------------------------------------------------------
\* C10

\* C10: an ALL callback registered on a listener is invoked by the first tick
\* at whose end every tracked Action is done, by no tick before, and never a
\* second time.
C10_AllFiresOnce ==
    [][\A l \in 1 .. Len(listener') : \A c \in AllCbs :
        LET L == listener'[l]
            allDone == \A a \in L.actions : done'[a]
        IN  /\ L.allFired[c] <= 1
            /\ L.allFired[c] = 1 => allDone
            /\ (/\ IsTick(log')
                /\ l <= Len(listener)
                /\ InSeq(listenerList, l)
                /\ InSeq(listener[l].all, c)) =>
                    IF allDone
                    THEN L.allFired[c] = 1 /\ Fired(log', "all", l, c)
                    ELSE L.allFired[c] = 0 /\ ~Fired(log', "all", l, c)]_vars

\* Both ALL callbacks of a listener over the two Actions have been invoked,
\* and a later tick has passed.
C10_Witness ==
    /\ Len(listener) = 1
    /\ listener[1].actions = Actions
    /\ listener[1].allFired["f"] = 1 /\ listener[1].allFired["g"] = 1
    /\ listener[1].resolved
    /\ log = << [ev |-> "tick", arg |-> 0] >>

----------------------------------------------------------------------------
\* C11

FiredCount(l, which, lis, c) ==
    Cardinality({ i \in 1 .. Len(l) : l[i] = [ev |-> which, lis |-> lis, cb |-> c] })

AllTrackedDone(l) == \A a \in listener[l].actions : done[a]
AnyTrackedDone(l) == \E a \in listener[l].actions : done[a]

\* C11: in a tick, a registered listener invokes an ANY callback exactly when
\* the callback is registered on it and a tracked Action is done at the
\* evaluation; it invokes it once and forgets it, so that a later tick in which
\* further Actions finish does not invoke it again.  The evaluation resolves
\* or unregisters the listener only if it publishes ALL callbacks.
C11_AnyFiresOnce ==
    [][\A l \in 1 .. Len(listener) : \A c \in AnyCbs :
        (IsTick(log') /\ InSeq(listenerList, l)) =>
            LET anyDone == \E a \in listener[l].actions : done'[a]
                allDone == \A a \in listener[l].actions : done'[a]
            IN  /\ IF InSeq(listener[l].any, c) /\ anyDone
                   THEN /\ FiredCount(log', "any", l, c) = 1
                        /\ listener'[l].any = NoCallbacks
                   ELSE /\ FiredCount(log', "any", l, c) = 0
                        /\ listener'[l].any = listener[l].any
                /\ ~(allDone /\ listener[l].all # NoCallbacks) =>
                        /\ ~listener'[l].resolved
                        /\ InSeq(listenerList', l)]_vars

\* The ANY callback of a listener over the two Actions was invoked by an
\* earlier tick; in this tick a further Action finished, the callback was not
\* invoked again, and the listener is unresolved and registered.
C11_Witness ==
    /\ IsTick(log)
    /\ Len(listener) = 1
    /\ listener[1].actions = Actions
    /\ listener[1].anyFired["h"] = 1
    /\ \E i \in 1 .. Len(log) : log[i].ev = "step" /\ log[i].post.done
    /\ \E i \in 1 .. Len(log) : log[i] = [ev |-> "listener", lis |-> 1]
    /\ ~Fired(log, "any", 1, "h")
    /\ AllTrackedDone(1)
    /\ ~listener[1].resolved
    /\ InSeq(listenerList, 1)

----------------------------------------------------------------------------
\* C12

\* C12: a tick at whose listener evaluation every tracked Action of a
\* registered listener is done leaves the listener resolved and out of the
\* listener list, whatever callbacks are registered on it.
C12_ResolvedWhenAllDone ==
    [][\A l \in 1 .. Len(listener) :
        (/\ IsTick(log')
         /\ InSeq(listenerList, l)
         /\ \A a \in listener[l].actions : done'[a]) =>
            /\ listener'[l].resolved
            /\ ~InSeq(listenerList', l)]_vars

\* What holds of the code: the same for a listener with an ALL callback.
C12_ResolvedWhenAllDoneAndAllRegistered ==
    [][\A l \in 1 .. Len(listener) :
        (/\ IsTick(log')
         /\ InSeq(listenerList, l)
         /\ listener[l].all # NoCallbacks
         /\ \A a \in listener[l].actions : done'[a]) =>
            /\ listener'[l].resolved
            /\ ~InSeq(listenerList', l)]_vars

----------------------------------------------------------------------------
\* C13

\* The listener was evaluated by the last operation, a tick, with every
\* tracked Action done.
EvaluatedAllDone(l) ==
    /\ IsTick(log)
    /\ \E i \in 1 .. Len(log) : log[i] = [ev |-> "listener", lis |-> l]
    /\ AllTrackedDone(l)

IsRegistration(l, lis) ==
    l # <<>> /\ l[1].ev \in {"allDone", "anyDone"} /\ l[1].arg = lis

\* C13: an allDone or anyDone registration on a listener that has been
\* evaluated with every tracked Action done invokes the callback inside the
\* call and queues nothing.
C13_RegistrationAfterAllDoneIsSynchronous ==
    [][\A l \in 1 .. Len(listener) :
        (EvaluatedAllDone(l) /\ IsRegistration(log', l)) =>
            /\ \E i \in 1 .. Len(log') : log'[i].ev = "sync" /\ log'[i].lis = l
            /\ listener'[l].all = listener[l].all
            /\ listener'[l].any = listener[l].any]_vars

\* What holds of the code: a registration on a resolved listener is synchronous.
C13_RegistrationOnResolvedIsSynchronous ==
    [][\A l \in 1 .. Len(listener) :
        (listener[l].resolved /\ IsRegistration(log', l)) =>
            /\ \E i \in 1 .. Len(log') : log'[i].ev = "sync" /\ log'[i].lis = l
            /\ listener'[l].all = listener[l].all
            /\ listener'[l].any = listener[l].any]_vars

----------------------------------------------------------------------------
\* C14

IsOp(l, name) == l # <<>> /\ l[1].ev = name

\* The last operation threw the error of addChild.
Threw(l) == \E i \in 1 .. Len(l) : l[i] = ChildHasBeenAdded

\* C14: addChild with a node that has a parent throws, and leaves every
\* children list, every parent and stage reference, and all the rest of the
\* state as it was.
C14_AddChildOfParentedFails ==
    [][(IsOp(log', "addChild") /\ node[log'[1].arg[2]].parent # Null) =>
            /\ Threw(log')
            /\ node' = node
            /\ attr' = attr /\ texture' = texture
            /\ UNCHANGED << queue, done, running, sprite, actionList,
                            listenerList, listener >>]_vars

\* s1.addChild(s3) was refused while s3 was a child of s2, a sprite of
\* another tree.
C14_Witness ==
    /\ log = << [ev |-> "addChild", arg |-> <<"s1", "s3">>], ChildHasBeenAdded >>
    /\ node["s3"].parent = "s2"
    /\ node["s2"].children = <<"s3">>
    /\ node["s1"].children = <<>>
    /\ node["s1"].parent = "root"
    /\ node["s2"].parent = Null

----------------------------------------------------------------------------
\* C15

\* C15: in every state a children list names no sprite twice, no sprite is
\* in two children lists, and a sprite has the parent p exactly when it is in
\* the children list of p.
C15_ParentIsOwner ==
    /\ \A p \in Nodes : NoDuplicates(node[p].children)
    /\ \A n, p, q \in Nodes :
            (InSeq(node[p].children, n) /\ InSeq(node[q].children, n)) => p = q
    /\ \A n, p \in Nodes : (node[n].parent = p) <=> InSeq(node[p].children, n)

\* After a refused addChild: the root has two children, the later one put
\* first, and a grandchild.
C15_Witness ==
    /\ IsOp(log, "addChild") /\ Threw(log)
    /\ node["root"].children = <<"s2", "s1">>
    /\ node["s1"].children = <<"s3">>
    /\ node["s3"].parent = "s1"

----------------------------------------------------------------------------
\* C16

\* The sprite and all its descendants.
RECURSIVE SubtreeOf(_, _)
SubtreeOf(nd, n) ==
    {n} \cup UNION { SubtreeOf(nd, nd[n].children[i]) : i \in 1 .. Len(nd[n].children) }

C16_Removed ==
    /\ log = << [ev |-> "removeChild", arg |-> <<"root", "s1">>] >>
    /\ node["s2"].parent = "s1" /\ node["s3"].parent = "s2"
    /\ node["root"].stage = "stage"
    /\ \A n \in Nodes \ {"root"} : node[n].stage = Null

----------------------------------------------------------------------------
\* C17

\* The Actions on a sprite.
ActionsOn(n) == { a \in Actions : sprite[a] = n }

\* C17: release(true) leaves every Action that was active on the sprite or
\* on a sprite of its subtree stopped - done, not running, its queue empty,
\* out of the active list - and the sprite and all its descendants without
\* parent and without children; and a tick advances no Action that is out of
\* the active list and changes no sprite that has no Action in it.
C17_ReleaseHaltsSubtree ==
    [][/\ (IsOp(log', "release") /\ log'[1].arg[2]) =>
            \A d \in SubtreeOf(node, log'[1].arg[1]) :
                /\ node'[d].parent = Null
                /\ node'[d].children = <<>>
                /\ \A a \in ActionsOn(d) :
                    /\ IndexOf(actionList', a) = 0
                    /\ InList(a) =>
                        /\ done'[a] /\ ~running'[a] /\ queue'[a] = <<>>
                        /\ StoppedIn(log', a)
       /\ IsTick(log') =>
            /\ \A a \in Actions : ~InList(a) =>
                    /\ StepsIn(log', a) = <<>>
                    /\ AdvanceCount(log', a) = 0
                    /\ queue'[a] = queue[a]
            /\ \A n \in Nodes : (\A a \in ActionsOn(n) : ~InList(a)) =>
                    /\ attr'[n] = attr[n]
                    /\ texture'[n] = texture[n]
                    /\ node'[n] = node[n]]_vars

\* s1 with its child s2 was released with its subtree while a Transition of
\* each of the two Actions was half way; a tick has passed since, and the
\* attributes are where the release left them.
C17_Witness ==
    /\ IsTick(log)
    /\ AdvancesIn(log) = <<>>
    /\ sprite = [a \in Actions |-> IF a = "a1" THEN "s1" ELSE "s2"]
    /\ done["a1"] /\ done["a2"]
    /\ attr["s1"]["x"] = 2 /\ attr["s2"]["x"] = 2
    /\ \A n \in Sprites : node[n].parent = Null /\ node[n].children = <<>>

\* The release of C17_Witness itself: both Actions are stopped by it.
C17_Released ==
    /\ log # <<>>
    /\ log[1] = [ev |-> "release", arg |-> <<"s1", TRUE>>]
    /\ StoppedIn(log, "a1") /\ StoppedIn(log, "a2")
    /\ attr["s1"]["x"] = 2 /\ attr["s2"]["x"] = 2

----------------------------------------------------------------------------
\* C18

\* C18: in every state, for every sprite, originPixelX is originX * width and
\* originPixelY is originY * height (an origin is counted in halves).
C18_PixelOriginIsOriginTimesSize ==
    \A n \in Nodes : \A ax \in Axes :
        2 * node[n][ax.originPixel] = node[n][ax.origin] * node[n][ax.size]

\* The root was given the width 300: its child s1, pinned left and right, got
\* the width 270 and the pixel origin 135; s1 has half the height of the root,
\* and with the origin 0 the pixel origin 0.
C18_Witness ==
    /\ log = << [ev |-> "width", arg |-> <<"root", Px(300)>>] >>
    /\ node["root"].originPixelX = Px(150)
    /\ node["s1"].parent = "root"
    /\ node["s1"].width = Px(270) /\ node["s1"].originX = 1
    /\ node["s1"].originPixelX = Px(135)
    /\ node["s1"].height = Px(150) /\ node["s1"].originY = 0
    /\ node["s1"].originPixelY = 0

\* The size of s1 came from its texture.
C18_AutoSized ==
    /\ IsOp(log, "texture")
    /\ node["s1"].width = TextureWidth /\ node["s1"].height = TextureHeight
    /\ node["s1"].originPixelX = Half(TextureWidth)
    /\ node["s1"].originY = 0 /\ node["s1"].originPixelY = 0

----------------------------------------------------------------------------
\* C19

Pinned(nd, n, ax) == nd[n][ax.near] # Undefined /\ nd[n][ax.far] # Undefined

\* C19: after every setting of a pin, every addChild and every change of the
\* size of the parent, a sprite with a parent and with both pins of an axis
\* has the size of the parent less the two pins; and the setter of a pin on a
\* sprite without parent changes no size and no position.
C19_PinnedSizeFollowsParent ==
    [][/\ \A n \in Nodes : \A ax \in Axes :
            (node'[n].parent # Null /\ Pinned(node', n, ax)) =>
                node'[n][ax.size] =
                    node'[node'[n].parent][ax.size] - node'[n][ax.near] - node'[n][ax.far]
       /\ (/\ log' # <<>>
           /\ log'[1].ev \in {"top", "right", "bottom", "left"}
           /\ node[log'[1].arg[1]].parent = Null) =>
                /\ attr' = attr
                /\ \A n \in Nodes : \A ax \in Axes :
                        /\ node'[n][ax.size] = node[n][ax.size]
                        /\ node'[n][ax.originPixel] = node[n][ax.originPixel]]_vars

\* left = 10 and right = 20 under the root of width 300, set from 200: the
\* width is 270; top = 10 and bottom = 20 under the height 200: 170.
C19_Witness ==
    /\ log = << [ev |-> "width", arg |-> <<"root", Px(300)>>] >>
    /\ node["s1"].parent = "root"
    /\ node["s1"].left = Px(10) /\ node["s1"].right = Px(20)
    /\ node["s1"].top = Px(10) /\ node["s1"].bottom = Px(20)
    /\ node["root"].width = Px(300) /\ node["s1"].width = Px(270)
    /\ node["root"].height = Px(200) /\ node["s1"].height = Px(170)

\* The pins set on s1 without a parent: s1 has the size it was constructed with.
C19_NoParent ==
    /\ IsOp(log, "right")
    /\ node["s1"].parent = Null
    /\ Pinned(node, "s1", AxisX)
    /\ node["s1"].width = 0 /\ attr["s1"]["x"] = 0

----------------------------------------------------------------------------
\* C20

\* Twice the position the alignment asks for.
AlignedTwice(nd, n, ax) ==
    LET parent == nd[nd[n].parent]
        o == nd[n][ax.originPixel]
    IN  CASE nd[n][ax.align] = ax.low -> 2 * o
          [] nd[n][ax.align] = ax.high -> 2 * (parent[ax.size] - (nd[n][ax.size] - o))
          [] nd[n][ax.align] = "CENTER" -> parent[ax.size] + 2 * o - nd[n][ax.size]

\* C20: after every setting of an alignment, addChild and change of the
\* sprite's size, of its origin or of the size of its parent, a sprite with a
\* parent, an alignment on an axis and no pins on it is where the alignment
\* asks; and alignX = TOP or BOTTOM, and alignY = LEFT or RIGHT, change
\* neither the alignment nor the position.
C20_AlignedPosition ==
    [][/\ \A n \in Nodes : \A ax \in Axes :
            (/\ node'[n].parent # Null
             /\ node'[n][ax.align] # Null
             /\ ~Pinned(node', n, ax)) =>
                /\ node'[n][ax.align] \in {ax.low, ax.high, "CENTER"}
                /\ 2 * attr'[n][ax.pos] = AlignedTwice(node', n, ax)
       /\ \A ax \in Axes :
            (IsOp(log', ax.align) /\ log'[1].arg[2] \in ax.opposite) =>
                /\ node' = node
                /\ attr' = attr]_vars

\* alignX = CENTER, width 50, origin 0.5, under the root of width 200: x is
\* 100; alignY = BOTTOM, height 50, origin 0, under the height 300: y is 250.
C20_Witness ==
    /\ node["s1"].parent = "root"
    /\ node["s1"].alignX = "CENTER" /\ node["s1"].width = Px(50)
    /\ node["s1"].originX = 1 /\ node["root"].width = Px(200)
    /\ attr["s1"]["x"] = Px(100)
    /\ node["s1"].alignY = "BOTTOM" /\ node["s1"].height = Px(50)
    /\ node["s1"].originY = 0 /\ node["root"].height = Px(300)
    /\ attr["s1"]["y"] = Px(250)
    /\ log = << [ev |-> "height", arg |-> <<"root", Px(300)>>] >>

\* alignX = TOP was ignored on the sprite aligned RIGHT.
C20_OppositeIgnored ==
    /\ log = << [ev |-> "alignX", arg |-> <<"s1", "TOP">>] >>
    /\ node["s1"].parent = "root"
    /\ node["s1"].alignX = "RIGHT"
    /\ attr["s1"]["x"] = Px(175)

----------------------------------------------------------------------------
\* C21

\* C21: a timeout of the frame loop runs a tick only while the stage is
\* running: once stop() has returned, from wherever it was called, no timeout
\* fires until start() is called again.
C21_NoTickWhileStopped ==
    [][IsOp(log', "timeout") => loop.isRunning]_vars

\* What holds of the code: stop() called by the program on a running stage,
\* between two ticks, clears the timeout that timerID names.
C21_StopBetweenTicksClearsTimer ==
    [][(IsOp(log', "Stage.stop") /\ loop.isRunning) =>
            loop'.timerID \notin loop'.timers]_vars

----------------------------------------------------------------------------
\* C22

\* What holds of the code: start() on a running stage sets no timeout and
\* registers nothing, and start(true) sets no timeout.
C22_StartIdempotent ==
    [][IsOp(log', "Stage.start") =>
            /\ loop.isRunning => (loop' = loop /\ Len(log') = 1)
            /\ log'[1].arg => loop'.timers = loop.timers]_vars

\* C22: start() on a running stage sets no timeout and registers nothing,
\* start(true) sets no timeout, and after any start, stop and timeout at most
\* one timeout of the frame loop is still to fire.
C22_StartIdempotentOneTimer ==
    C22_StartIdempotent /\ [](Cardinality(loop.timers) <= 1)

----------------------------------------------------------------------------
\* C23

\* The sprites on which n._update invoked _update during the last operation,
\* in the order of the invocations.
UpdatedBy(l, n) ==
    LET calls == SelectSeq(l, LAMBDA event : event.ev = "_update" /\ event.by = n)
    IN  [i \in 1 .. Len(calls) |-> calls[i].node]

Updated(l, n) == \E i \in 1 .. Len(l) : l[i].ev = "_update" /\ l[i].node = n

\* C23: in a step of the stage every sprite that is updated invokes _update
\* once on each sprite of its children list as the list was when it began to
\* iterate, in the order of the list, and on no other sprite, whatever the
\* update hooks of the children remove from, add to or move in the list of
\* the root sprite.  (The hooks change the list of the root sprite only, and
\* the root sprite has no hook, so that the lists at the beginning of the
\* iterations are the lists before the step.)
C23_UpdateIteratesSnapshot ==
    [][IsOp(log', "Stage.step") =>
            \A n \in Nodes :
                UpdatedBy(log', n) = IF Updated(log', n) THEN node[n].children ELSE <<>>]_vars

\* The last step updated s2 as a child of the root sprite after the hook of
\* s1 had removed it, and updated s1 before it.
C23_Witness ==
    /\ IsOp(log, "Stage.step")
    /\ UpdatedBy(log, "root") = <<"s1", "s2">>
    /\ node["s1"].update = [op |-> "removeChild", parent |-> "root", target |-> "s2"]
    /\ node["s2"].parent = Null

\* The last step added s3 to the root sprite and did not update it.
C23_Adopted ==
    /\ IsOp(log, "Stage.step")
    /\ \E i \in 1 .. Len(node["root"].children) : node["root"].children[i] = "s3"
    /\ ~Updated(log, "s3")

----------------------------------------------------------------------------
\* C24

HasMissing(text) == \E i \in 1 .. Len(text) : text[i] \notin DOMAIN TextureMap

\* The last operation threw an error that names a word of the text that has
\* no texture.
ThrewNotFound(l, text) ==
    \E i \in 1 .. Len(l), j \in 1 .. Len(text) :
        text[j] \notin DOMAIN TextureMap /\ l[i] = NotFound(text[j])

\* The sprites, with their children, sizes, positions and textures.
Tree == << node, attr, texture >>

\* C24: setText with a word that has no texture throws an error that names
\* the word and leaves the text, the list of textures and the children of the
\* label as they were; addChild of a label throws and adds nothing.
C24_FailedSetTextChangesNothing ==
    [][/\ (IsOp(log', "setText") /\ HasMissing(log'[1].arg)) =>
            /\ ThrewNotFound(log', log'[1].arg)
            /\ label' = label
            /\ Tree' = Tree
       /\ IsOp(log', "BMFontLabel.addChild") =>
            /\ log'[Len(log')] = NotCallable
            /\ label' = label
            /\ Tree' = Tree]_vars

\* What holds of the code: the same, but for the text, which is the new text.
C24_FailedSetTextKeepsWords ==
    [][/\ (IsOp(log', "setText") /\ HasMissing(log'[1].arg)) =>
            /\ ThrewNotFound(log', log'[1].arg)
            /\ label'.words = label.words
            /\ label'.text = log'[1].arg
            /\ Tree' = Tree
       /\ IsOp(log', "BMFontLabel.addChild") =>
            /\ log'[Len(log')] = NotCallable
            /\ label' = label
            /\ Tree' = Tree]_vars

\* The label shows the text 1 2 with two sprites, and its text is 2 9, the
\* text of a setText that failed.
C24_StaleGlyphs ==
    /\ IsOp(log, "setText")
    /\ label.text = <<2, 9>>
    /\ label.words = <<11, 12>>
    /\ node[Label].children = <<"s2", "s3">>

----------------------------------------------------------------------------
\* C25

\* The value a Transition with these start values writes to attribute n
\* once its elapsed time is post.elapsed.
Interpolated(post, n) ==
    post.starts[n] + Ease(post.elapsed, post.duration, post.attrs[n] - post.starts[n])

\* C25: a step of a Transition that does not end it takes as start value of
\* each targeted attribute the value the sprite has when the Transition is
\* stepped for the first time, keeps the start value it has taken before, and
\* leaves in the attribute start + easing(elapsed / duration) * (dest - start),
\* whatever value the attribute had before the step.
C25_BaselineCapturedOnce ==
    [][IsTick(log') =>
        \A i \in 1 .. Len(log') :
            (IsStepOf(log'[i], "Transition") /\ ~log'[i].post.done) =>
                LET unit == log'[i].unit
                    post == log'[i].post
                IN  \A n \in DOMAIN unit.attrs :
                        /\ post.starts[n] = IF n \in DOMAIN unit.starts
                                            THEN unit.starts[n]
                                            ELSE attr["s1"][n]
                        /\ attr'["s1"][n] = Interpolated(post, n)]_vars

\* The last tick stepped a Transition whose start value of x is the value
\* the program had given to x before its first step, and it overwrote the
\* value 0 the program had given to x since the step before.
C25_Witness ==
    /\ IsTick(log)
    /\ \E i \in 1 .. Len(log) :
            /\ IsStepOf(log[i], "Transition")
            /\ ~log[i].post.done
            /\ "x" \in DOMAIN log[i].unit.starts
            /\ log[i].unit.starts["x"] = Elsewhere
            /\ log[1].arg["s1"]["x"] = 0
            /\ attr["s1"]["x"] = Interpolated(log[i].post, "x")
            /\ attr["s1"]["x"] # 0

----------------------------------------------------------------------------
\* C26

IsSetter(l, names) == l # <<>> /\ l[1].ev \in names

\* C26: a sprite that has a parent and a percentage has the size parent size
\* * percentage, or parent size - near pin - far pin when both pins are set,
\* after every setter, addChild and change of the size of the parent and of
\* the parent of the parent; every pin setter and percentage setter clears
\* autoResize; and a percentage setter on a sprite without parent changes
\* no size.
C26_PercentSizeFollowsParent ==
    /\ [](\A n \in Nodes, ax \in Axes :
            (node[n].parent # Null /\ node[n][ax.percent] # Undefined) =>
                node[n][ax.size] =
                    IF Pinned(node, n, ax)
                    THEN node[node[n].parent][ax.size] - node[n][ax.near] - node[n][ax.far]
                    ELSE Times(node[node[n].parent][ax.size], node[n][ax.percent]))
    /\ [][/\ IsSetter(log', {"top", "right", "bottom", "left",
                              "percentWidth", "percentHeight"}) =>
                ~node'[log'[1].arg[1]].autoResize
          /\ (/\ IsSetter(log', {"percentWidth", "percentHeight"})
              /\ node[log'[1].arg[1]].parent = Null) =>
                \A n \in Nodes : /\ node'[n].width = node[n].width
                                  /\ node'[n].height = node[n].height]_vars

\* The root sprite was made 300 wide: s1, half as wide as its parent, is 150
\* wide, and s2, half as wide as s1, is 75 wide.
C26_Witness ==
    /\ IsOp(log, "width")
    /\ log[1].arg = <<"root", Px(300)>>
    /\ node["s1"].parent = "root" /\ node["s2"].parent = "s1"
    /\ node["s1"].percentWidth = 1 /\ node["s2"].percentWidth = 1
    /\ ~Pinned(node, "s1", AxisX)
    /\ node["s1"].width = Px(150)
    /\ node["s2"].width = Px(75)

\* s1 has a percentage and both pins: the pins give its width.
C26_PinsWin ==
    /\ node["s1"].parent = "root"
    /\ node["s1"].percentWidth = 2
    /\ Pinned(node, "s1", AxisX)
    /\ node["root"].width = Px(300)
    /\ node["s1"].width = Px(270)

\* s1, which has no parent, was given a percentage.
C26_NoParent ==
    /\ IsSetter(log, {"percentWidth", "percentHeight"})
    /\ log[1].arg[1] = "s1"
    /\ node["s1"].parent = Null
    /\ node["s1"].width = TextureWidth

----------------------------------------------------------------------------
\* C27

\* The width, the height and the pixel origin of a sprite.
Extent(nd, n) == << nd[n].width, nd[n].height, nd[n].originPixelX, nd[n].originPixelY >>

\* A texture given to s1, by the program or by an Animation, leaves the
\* extent of s1 as it was when autoResize is not set.
TextureKeepsExtent ==
    (IsSetter(log', {"texture", "animate", "tick"}) /\ ~node["s1"].autoResize) =>
        Extent(node', "s1") = Extent(node, "s1")

\* C27: a ready texture given to a sprite with autoResize set makes the
\* sprite as wide and as high as the texture; a texture given by the program
\* or by an Animation to a sprite whose autoResize a pin, a percentage or a
\* grid has cleared leaves its width, height and pixel origin as they were.
C27_TextureSizesAutoResized ==
    [][/\ (IsOp(log', "texture") /\ node[log'[1].arg[1]].autoResize) =>
            /\ node'[log'[1].arg[1]].width = TextureWidth
            /\ node'[log'[1].arg[1]].height = TextureHeight
       /\ TextureKeepsExtent]_vars

\* C27 as amended: the same, for a texture that is not the texture the
\* sprite has.
C27_NewTextureSizesAutoResized ==
    [][/\ (/\ IsOp(log', "texture")
           /\ node[log'[1].arg[1]].autoResize
           /\ log'[1].arg[2] # texture[log'[1].arg[1]]) =>
            /\ node'[log'[1].arg[1]].width = TextureWidth
            /\ node'[log'[1].arg[1]].height = TextureHeight
       /\ TextureKeepsExtent]_vars

\* s1, with autoResize set, was given the texture 1 and has its size.
C27_Witness ==
    /\ IsOp(log, "texture")
    /\ log[1].arg = <<"s1", 1>>
    /\ texture["s1"] = 1
    /\ node["s1"].autoResize
    /\ Extent(node, "s1") = << TextureWidth, TextureHeight, Half(TextureWidth), Half(TextureHeight) >>

\* s1, whose autoResize a grid cleared when it was 50 wide, was given the
\* texture 1 and is 50 wide.
C27_KeptSize ==
    /\ IsOp(log, "texture")
    /\ texture["s1"] = 1
    /\ ~node["s1"].autoResize
    /\ node["s1"].left = Undefined /\ node["s1"].percentHeight = Undefined
    /\ node["s1"].width = Px(50)

----------------------------------------------------------------------------
\* C28

\* The sprites reached from n by following parent at most k times.
RECURSIVE ParentChain(_, _, _)
ParentChain(nd, n, k) ==
    IF k = 0 \/ nd[n].parent = Null THEN {}
    ELSE {nd[n].parent} \cup ParentChain(nd, nd[n].parent, k - 1)

\* C28: no sprite is its own parent or its own ancestor.
C28_ParentRelationAcyclic ==
    \A n \in Nodes : n \notin ParentChain(node, n, Cardinality(Nodes))

\* What holds of the code: addChild adds a sprite only if it has no parent,
\* so that a cycle is made only by adding the root of a tree to itself or to
\* one of its descendants.
C28_CycleOnlyThroughOwnRoot ==
    [][(C28_ParentRelationAcyclic /\ ~C28_ParentRelationAcyclic') =>
            /\ IsOp(log', "addChild")
            /\ node[log'[1].arg[2]].parent = Null
            /\ log'[1].arg[2] \in {log'[1].arg[1]}
                    \cup ParentChain(node, log'[1].arg[1], Cardinality(Nodes))]_vars

----------------------------------------------------------------------------
\* C29

\* C29: a tick does not take out of the active list an Action whose queue is
\* not empty after the tick, whether or not the Action was stopped and
\* started again before.
C29_QueuedStepStaysActive ==
    [][IsTick(log') =>
        \A a \in Actions :
            (InList(a) /\ queue'[a] # <<>>) => IndexOf(actionList', a) > 0]_vars

\* What holds of the code: the same for an Action that is not done before
\* the tick, which is an Action that was never stopped and never drained.
C29_FreshStepStaysActive ==
    [][IsTick(log') =>
        \A a \in Actions :
            (InList(a) /\ ~done[a] /\ queue'[a] # <<>>) => IndexOf(actionList', a) > 0]_vars

----------------------------------------------------------------------------
\* C30

\* C30: under repeated ticks every started Action of finite behaviours, an
\* Action started with an empty queue included, is eventually done and out
\* of the active list: a tick that changes nothing any more leaves no Action
\* in the active list.
C30_IdleTickLeavesNoneActive ==
    [][(IsTick(log') /\ queue' = queue /\ done' = done /\ running' = running
            /\ actionList' = actionList)
        => actionList' = <<>>]_vars

\* The same as a temporal property of the ticked Action.
C30_StartedStepFinishes ==
    \A a \in Actions : [](InList(a) => <>(done[a] /\ ~InList(a)))

\* What holds of the code: an Action started with a behaviour in its queue
\* is eventually done and out of the active list,
C30_QueuedStepFinishes ==
    \A a \in Actions : []((InList(a) /\ queue[a] # <<>>) => <>(done[a] /\ ~InList(a)))

\* and every tick changes the queue of each Action it advances whose queue
\* is not empty.
C30_AdvancedStepProgresses ==
    [][IsTick(log') => \A a \in Actions :
        (AdvanceCount(log', a) > 0 /\ queue[a] # <<>>) => queue'[a] # queue[a]]_vars

----------------------------------------------------------------------------
\* C31

\* The sprite has a parent, both pins of the axis and no alignment on it.
PinPlaced(nd, n, ax) ==
    nd[n].parent # Null /\ Pinned(nd, n, ax) /\ nd[n][ax.align] = Null

AtPin(nd, at, n, ax) == at[n][ax.pos] = nd[n][ax.near] + nd[n][ax.originPixel]

\* C31: in every state a sprite with a parent, with left and right and
\* without alignX has x = left + originPixelX, and one with top and bottom
\* and without alignY has y = top + originPixelY.
C31_PinnedPositionFollowsOrigin ==
    \A n \in Nodes : \A ax \in Axes : PinPlaced(node, n, ax) => AtPin(node, attr, n, ax)

\* What holds of the code: only the setter of the origin takes a placed
\* sprite away from its pin; the setting of a pin, addChild and a change of
\* the size of the parent put it there.
C31_OnlyOriginLeavesPin ==
    [][\A n \in Nodes : \A ax \in Axes :
        (PinPlaced(node', n, ax) /\ ~AtPin(node', attr', n, ax)) =>
            \/ IsOp(log', ax.origin)
            \/ PinPlaced(node, n, ax) /\ ~AtPin(node, attr, n, ax)]_vars

\* The origin of the pinned s1 was set to 0 after it was placed: x is still
\* the pin plus the former pixel origin.
C31_StalePosition ==
    /\ IsOp(log, "originX")
    /\ PinPlaced(node, "s1", AxisX)
    /\ node["s1"].originPixelX = 0
    /\ attr["s1"]["x"] = node["s1"].left + Half(node["s1"].width)

----------------------------------------------------------------------------
\* C32

\* The indexes of a frame list of the given length.
FrameIndexes(frames) == 0 .. frames - 1

\* C32: every step of an Animation that assigns a texture has its frame
\* index within the frame list and assigns the frame at that index, and a
\* step of an Animation that is done assigns nothing.
C32_AssignsOnlyFrames ==
    \A i \in 1 .. Len(log) :
        IsStepOf(log[i], "Animation") =>
            LET u == log[i].unit
            IN  /\ log[i].writes # {} =>
                    /\ u.frameIndex \in FrameIndexes(u.frames)
                    /\ \A w \in log[i].writes : w.val \in FrameIndexes(u.frames)
                /\ u.done => log[i].writes = {}

\* What holds of the code: the same for the steps of an Animation that is
\* not done, and an Animation is stepped when done only if it was done when
\* it was queued.
C32_LiveAnimationAssignsOnlyFrames ==
    \A i \in 1 .. Len(log) :
        IsStepOf(log[i], "Animation") =>
            LET u == log[i].unit
            IN  /\ ~u.done =>
                    /\ u.frameIndex \in FrameIndexes(u.frames)
                    /\ \A w \in log[i].writes : w.val = u.frameIndex
                /\ u.done => u.shown = 1 /\ u.frames = 1 /\ u.repetitions = 1

\* The tick stepped an Animation of one frame that was done when queued, and
\* it assigned the texture undefined.
C32_AssignedUndefined ==
    /\ IsTick(log)
    /\ \E i \in 1 .. Len(log) :
            /\ IsStepOf(log[i], "Animation")
            /\ log[i].unit.done /\ log[i].unit.frameIndex = 1 /\ log[i].unit.frames = 1
            /\ log[i].writes = { [name |-> "texture", val |-> Undefined] }
    /\ texture["s1"] = Undefined

====
